---- MODULE Spec2Model ----
(***************************************************************************)
(* A model of the Guardian fetch/analyse pipeline:                         *)
(*   - BaseClient._request and its backoff helper (api_client/base_client) *)
(*   - analyze_articles, save_analysis and run_pipeline_for_date           *)
(*     (orchestrator/pipeline)                                             *)
(* Durations are integers in hundredths of a second.                       *)
(***************************************************************************)
EXTENDS Integers, Sequences, FiniteSets, TLC

VARIABLES
    \* ---- BaseClient._request ----
    rq_pc,        \* "idle" | "loop" | "returned" | "raised"
    rq_attempt,   \* the loop variable `attempt` of the for loop
    rq_sent,      \* number of session.request calls made by this call
    rq_last,      \* outcome of the most recent session.request call
    rq_pause,     \* what was slept after the most recent session.request call
    rq_resp,      \* the value returned (a response, or None)
    rq_error,     \* the kind of exception that left _request, or "None"
    rq_records,   \* number of logger.debug calls made by this call
    \* ---- orchestrator ----
    pc,           \* "idle" | "fetch" | "enter" | "loop" | "save" | "done" | "returned" | "raised"
    mode,         \* "none" | "direct" (analyze_articles called) | "pipeline"
    env,          \* which environment variables are set
    llm_client,   \* "None" | "stub" | "gemini"
    analyze_limit,\* the analyze_limit argument: None or Some(n)
    fetched,      \* the articles returned by fetch_articles_for_date
    articles,     \* the argument of analyze_articles
    max_retries,  \* the argument of analyze_articles
    base_backoff, \* the argument of analyze_articles
    max_backoff,  \* the argument of analyze_articles
    idx,          \* position of the outer for loop (1-based index into articles)
    attempt,      \* the next value of the inner loop variable `attempt`
    successes,    \* list of ArticleAnalysis
    failures,     \* list of failure dicts
    last_call,    \* the most recent llm_client.analyze_article call and its outcome
    calls,        \* log of the llm_client.analyze_article calls made so far
    orch_error,   \* the kind of exception that left the entry point, or "None"
    mainFile,     \* guardian_analysis_{date}.jsonl
    failFile,     \* guardian_analysis_{date}_failures.jsonl
    \* ---- BaseClient.get_all_articles ----
    pg_pc,        \* "idle" | "loop" | "returned" | "raised"
    pg_params,    \* the caller's params mapping (the object passed in)
    pg_params0,   \* the caller's params mapping as it was before the call
    pg_page,      \* the local `page`
    pg_results,   \* the local `results`: None or Some(list)
    pg_sizes,     \* number of results of each page fetched so far
    pg_requests,  \* the page parameter of each _request call made so far
    pg_last,      \* outcome of the most recent _request call
    pg_returned,  \* the list returned: None or Some(list)
    pg_error,     \* the kind of exception that left get_all_articles, or "None"
    \* ---- the debug record of BaseClient._request ----
    lg_debug,     \* whether the logger is enabled for DEBUG
    lg_requests,  \* the params and the client's key of each _request call so far
    lg_log,       \* per call, the params the record shows: None or Some(dict)
    \* ---- _parse_response ----
    pr_pc,        \* "called" | "returned" | "raised"
    pr_data,      \* the argument `data`
    pr_out,       \* the ArticleAnalysis returned: None or Some(record)
    pr_error,     \* the kind of exception that left _parse_response, or "None"
    \* ---- article_from_guardian ----
    nm_pc,        \* "called" | "returned" | "raised"
    nm_item,      \* the argument `item`
    nm_out,       \* the Article returned: None or Some(record)
    nm_error,     \* the kind of exception that left it, or "None"
    \* ---- the CLI's logging setup and the trace decorator ----
    tr_pc,        \* "start" | "configured"
    tr_trace,     \* the --trace flag
    tr_log_level, \* the --log-level value
    tr_level,     \* the level of the root logger
    tr_calls,     \* outcome of each decorated call made after setup_logging
    tr_log,       \* the records the decorator emitted
    \* ---- GuardianClient.search_all ----
    sa_pc,        \* "start" | "yielded" (suspended at yield) | "ended" | "raised"
    sa_total,     \* the argument total_items
    sa_fetched,   \* the local `fetched`
    sa_page,      \* the local `page`
    sa_resp,      \* the local `resp`
    sa_pos,       \* position in `results` of the item last yielded
    sa_requests,  \* the page of each search made so far
    sa_out,       \* the items yielded so far
    \* ---- main() of api_client/base_client.py ----
    mn_pc,        \* "start" | "returned" | "raised"
    mn_printed,   \* the label of the message an except clause printed, or "None"
    mn_error      \* the exception that escapes main, or "None"

rqVars == <<rq_pc, rq_attempt, rq_sent, rq_last, rq_pause, rq_resp, rq_error,
           rq_records>>
orchVars == <<pc, mode, env, llm_client, analyze_limit, fetched, articles,
              max_retries, base_backoff, max_backoff, idx, attempt, successes, failures, last_call, calls,
              orch_error, mainFile, failFile>>
pgVars == <<pg_pc, pg_params, pg_params0, pg_page, pg_results, pg_sizes,
            pg_requests, pg_last, pg_returned, pg_error>>
lgVars == <<lg_debug, lg_requests, lg_log>>
prVars == <<pr_pc, pr_data, pr_out, pr_error>>
nmVars == <<nm_pc, nm_item, nm_out, nm_error>>
trVars == <<tr_pc, tr_trace, tr_log_level, tr_level, tr_calls, tr_log>>
saVars == <<sa_pc, sa_total, sa_fetched, sa_page, sa_resp, sa_pos, sa_requests,
           sa_out>>
mnVars == <<mn_pc, mn_printed, mn_error>>
nonOrchVars == <<rqVars, pgVars, lgVars, prVars,
                 nmVars, trVars, saVars, mnVars>>
nonReqVars == <<orchVars, pgVars, lgVars, prVars,
                nmVars, trVars, saVars, mnVars>>
nonPgVars == <<rqVars, orchVars, lgVars, prVars,
               nmVars, trVars, saVars, mnVars>>
nonLgVars == <<rqVars, orchVars, pgVars, prVars,
               nmVars, trVars, saVars, mnVars>>
nonPrVars == <<rqVars, orchVars, pgVars, lgVars,
               nmVars, trVars, saVars, mnVars>>
nonNmVars == <<rqVars, orchVars, pgVars, lgVars,
               prVars, trVars, saVars, mnVars>>
nonTrVars == <<rqVars, orchVars, pgVars, lgVars,
               prVars, nmVars, saVars, mnVars>>
nonSaVars == <<rqVars, orchVars, pgVars, lgVars,
               prVars, nmVars, trVars, mnVars>>
nonMnVars == <<rqVars, orchVars, pgVars, lgVars,
               prVars, nmVars, trVars, saVars>>
vars == <<rqVars, orchVars, pgVars, lgVars,
          prVars, nmVars, trVars, saVars, mnVars>>

(***************************************************************************)
(* Bounds of the model                                                     *)
(***************************************************************************)
JitterSteps == 2      \* random.uniform is sampled at 0, 1/JitterSteps, ..., 1 of its range
MaxArticles == 3      \* longest article list
MaxRetriesArg == 3    \* largest max_retries passed to analyze_articles directly
MaxLimitArg == 3      \* largest analyze_limit passed to run_pipeline_for_date

Seconds(n) == n * 100

Min(a, b) == IF a <= b THEN a ELSE b
Max(a, b) == IF a >= b THEN a ELSE b

RECURSIVE Pow2(_)
Pow2(n) == IF n <= 0 THEN 1 ELSE 2 * Pow2(n - 1)

(***************************************************************************)
(* BaseClient._request                                                     *)
(***************************************************************************)
req_max_retries == 4
req_base_backoff == 100
req_max_backoff == 3000

\* Header texts are sequences of one-character strings.
Digits == <<"0", "1", "2", "3", "4", "5", "6", "7", "8", "9">>
IsDigit(c) == \E i \in 1..10 : Digits[i] = c
DigitVal(c) == (CHOOSE i \in 1..10 : Digits[i] = c) - 1

RECURSIVE DigitsVal(_)
DigitsVal(s) ==
    IF s = <<>> THEN 0
    ELSE 10 * DigitsVal(SubSeq(s, 1, Len(s) - 1)) + DigitVal(s[Len(s)])

\* int(ra): an optional sign followed by decimal digits; anything else raises
\* ValueError.
IntParses(s) ==
    LET body == IF s # <<>> /\ s[1] \in {"+", "-"} THEN Tail(s) ELSE s
    IN  body # <<>> /\ \A i \in 1..Len(body) : IsDigit(body[i])
IntOf(s) ==
    IF s[1] = "-" THEN 0 - DigitsVal(Tail(s))
    ELSE IF s[1] = "+" THEN DigitsVal(Tail(s))
    ELSE DigitsVal(s)

NoHeader == [present |-> FALSE, text |-> <<>>]
Header(t) == [present |-> TRUE, text |-> t]
\* The Retry-After headers a server is modelled to send.
RetryAfterHeaders ==
    {NoHeader, Header(<<>>), Header(<<"a", "b", "c">>), Header(<<"0">>),
     Header(<<"5">>), Header(<<"6", "0">>), Header(<<"-", "5">>)}

NoRetryAfter == [given |-> FALSE, secs |-> 0]
\* Lines 124-130: retry_after is None unless the header is non-empty and int()
\* accepts it.
ParseRetryAfter(h) ==
    IF h.present /\ h.text # <<>> /\ IntParses(h.text)
    THEN [given |-> TRUE, secs |-> IntOf(h.text)]
    ELSE NoRetryAfter

\* sleep_time before jitter
BackoffBase(k, retry_after) ==
    IF retry_after.given
    THEN Min(req_max_backoff, Seconds(retry_after.secs))
    ELSE Min(req_max_backoff, req_base_backoff * Pow2(k - 1))

\* random.uniform(0, sleep_time * 0.5), sampled at step j of JitterSteps
Jitter(sleep_time, j) == (sleep_time * j) \div (2 * JitterSteps)

\* The value _backoff_sleep_jitter computes, passes to time.sleep and returns.
BackoffSleepJitter(k, retry_after, j) ==
    BackoffBase(k, retry_after) + Jitter(BackoffBase(k, retry_after), j)


\* The status codes a server is modelled to answer with.
Statuses == {200, 204, 400, 401, 403, 404, 429, 500, 503}

\* IsAuthStatus with 403 forgotten.
IsAuthStatus_Only401(status) == status = 401
IsAuthStatus(status) == status \in {401, 403}
IsClientStatus(status) == 400 <= status /\ status < 500 /\ status # 429
IsRetryableStatus(status) == status = 429 \/ (500 <= status /\ status < 600)

NoAttempt == [kind |-> "none", status |-> 0, header |-> NoHeader, attempt |-> 0]
NoPause == [helper |-> 0, extra |-> 0, calls |-> 0]
NoResponse == [status |-> 0]
NoCall == [article |-> 0, attempt |-> 0, exc |-> "None", slept |-> <<>>]

InitRequest ==
    /\ rq_pc = "idle"
    /\ rq_attempt = 0
    /\ rq_sent = 0
    /\ rq_last = NoAttempt
    /\ rq_pause = NoPause
    /\ rq_resp = NoResponse
    /\ rq_error = "None"
    /\ rq_records = 0

\* _request is entered: the debug record of line 77 is made and the loop
\* starts with attempt = 1.
RequestCall ==
    /\ rq_pc = "idle"
    /\ rq_pc' = "loop"
    /\ rq_attempt' = 1
    /\ rq_sent' = 0
    /\ rq_records' = 1
    /\ UNCHANGED <<rq_last, rq_pause, rq_resp, rq_error>>
    /\ UNCHANGED nonReqVars

\* The loop body is entered and session.request is called.
Sending ==
    /\ rq_pc = "loop"
    /\ rq_attempt <= req_max_retries
    /\ rq_sent' = rq_sent + 1
    /\ UNCHANGED nonReqVars

\* The branch raises `kind`.
ReqRaise(kind) ==
    /\ rq_pc' = "raised"
    /\ rq_error' = kind
    /\ rq_pause' = NoPause
    /\ UNCHANGED <<rq_attempt, rq_resp, rq_records>>

\* The branch sleeps (helper: inside _backoff_sleep_jitter, extra: its own
\* time.sleep), makes its debug record and continues with the next attempt.
ReqSleepAndContinue(helper, extra, calls_) ==
    /\ rq_pause' = [helper |-> helper, extra |-> extra, calls |-> calls_]
    /\ rq_attempt' = rq_attempt + 1
    /\ rq_records' = rq_records + 1
    /\ UNCHANGED <<rq_pc, rq_resp, rq_error>>

\* ReqTimeout with a counter of its own: a timeout does not use up an attempt.
ReqTimeout_OwnCounter ==
    /\ Sending
    /\ rq_last' = [kind |-> "timeout", status |-> 0, header |-> NoHeader,
                   attempt |-> rq_attempt]
    /\ \E j \in 0..JitterSteps :
         /\ rq_pause' = [helper |-> BackoffSleepJitter(rq_attempt, NoRetryAfter, j),
                         extra |-> 0, calls |-> 1]
         /\ rq_records' = rq_records + 1
         /\ UNCHANGED <<rq_pc, rq_attempt, rq_resp, rq_error>>

\* session.request raises requests.Timeout (lines 87-97).
ReqTimeout ==
    /\ Sending
    /\ rq_last' = [kind |-> "timeout", status |-> 0, header |-> NoHeader,
                   attempt |-> rq_attempt]
    /\ IF rq_attempt = req_max_retries
       THEN ReqRaise("APITimeoutError")
       ELSE \E j \in 0..JitterSteps :
              ReqSleepAndContinue(
                  BackoffSleepJitter(rq_attempt, NoRetryAfter, j), 0, 1)

\* session.request raises another requests.RequestException (lines 98-105).
ReqNetworkError ==
    /\ Sending
    /\ rq_last' = [kind |-> "network", status |-> 0, header |-> NoHeader,
                   attempt |-> rq_attempt]
    /\ IF rq_attempt = req_max_retries
       THEN ReqRaise("APIConnectionError")
       ELSE \E j \in 0..JitterSteps :
              LET sleep_time == BackoffSleepJitter(rq_attempt, NoRetryAfter, j)
              IN  ReqSleepAndContinue(sleep_time, sleep_time, 2)

\* The response has status 200 (lines 110-111).
ReqOk ==
    /\ Sending
    /\ rq_last' = [kind |-> "status", status |-> 200, header |-> NoHeader,
                   attempt |-> rq_attempt]
    /\ rq_pc' = "returned"
    /\ rq_resp' = [status |-> 200]
    /\ rq_pause' = NoPause
    /\ UNCHANGED <<rq_attempt, rq_error, rq_records>>

\* The response has status 401 or 403 (lines 114-115).
ReqAuthStatus ==
    /\ Sending
    /\ \E status \in Statuses :
         /\ status # 200
         /\ IsAuthStatus(status)
         /\ rq_last' = [kind |-> "status", status |-> status,
                        header |-> NoHeader, attempt |-> rq_attempt]
    /\ ReqRaise("APIAuthError")

\* The response has another 4xx status, 429 excepted (lines 118-119).
ReqClientStatus ==
    /\ Sending
    /\ \E status \in Statuses :
         /\ status # 200
         /\ ~IsAuthStatus(status)
         /\ IsClientStatus(status)
         /\ rq_last' = [kind |-> "status", status |-> status,
                        header |-> NoHeader, attempt |-> rq_attempt]
    /\ ReqRaise("APIClientError")

\* The kind raised when the last attempt answers 429 or 5xx (lines 132-136).
ExhaustedStatusError(status) ==
    IF status = 429 THEN "APIClientError" ELSE "APIServerError"

\* The response has status 429 or 5xx (lines 122-142).
ReqRetryableStatus ==
    /\ Sending
    /\ \E status \in Statuses, h \in RetryAfterHeaders :
         /\ status # 200
         /\ ~IsAuthStatus(status)
         /\ ~IsClientStatus(status)
         /\ IsRetryableStatus(status)
         /\ rq_last' = [kind |-> "status", status |-> status, header |-> h,
                        attempt |-> rq_attempt]
         /\ IF rq_attempt = req_max_retries
            THEN ReqRaise(ExhaustedStatusError(status))
            ELSE \E j \in 0..JitterSteps :
                   LET sleep_time ==
                         BackoffSleepJitter(rq_attempt, ParseRetryAfter(h), j)
                   IN  IF sleep_time < 0
                       THEN \* time.sleep rejects a negative duration
                            ReqRaise("ValueError")
                       ELSE ReqSleepAndContinue(sleep_time, sleep_time, 2)

\* The response has a status no branch handles: the loop body ends without
\* sleeping; after the last attempt the function falls off its end and returns
\* None.
ReqOtherStatus ==
    /\ Sending
    /\ \E status \in Statuses :
         /\ status # 200
         /\ ~IsAuthStatus(status)
         /\ ~IsClientStatus(status)
         /\ ~IsRetryableStatus(status)
         /\ rq_last' = [kind |-> "status", status |-> status,
                        header |-> NoHeader, attempt |-> rq_attempt]
    /\ rq_pause' = NoPause
    /\ rq_attempt' = rq_attempt + 1
    /\ rq_pc' = IF rq_attempt = req_max_retries THEN "returned" ELSE "loop"
    /\ rq_resp' = NoResponse
    /\ UNCHANGED <<rq_error, rq_records>>

(***************************************************************************)
(* core/models.py                                                          *)
(***************************************************************************)
\* Optional values: None is the empty sequence, a value v is <<v>>.
None == <<>>
Some(v) == <<v>>

\* Raw records (dicts) are functions from key strings to values.
Has(d, k) == k \in DOMAIN d
Get(d, k, default) == IF Has(d, k) THEN d[k] ELSE default
EmptyDict == [k \in {} |-> ""]

\* article_from_guardian raising also for a record without "fields".
ArticleFromGuardianRaises_NeedsFields(item) ==
    ~Has(item, "id") \/ ~Has(item, "fields")

\* article_from_guardian raises KeyError exactly when item["id"] does.
ArticleFromGuardianRaises(item) == ~Has(item, "id")

\* article_from_guardian taking webTitle before fields.headline.
ArticleFromGuardian_WebTitleFirst(item) ==
    LET fields == Get(item, "fields", EmptyDict)
    IN  [id |-> item["id"],
         title |-> Get(item, "webTitle", Get(fields, "headline", "")),
         body |-> Get(fields, "bodyText", ""),
         section |-> IF Has(item, "sectionName") THEN Some(item["sectionName"]) ELSE None,
         publication |-> IF Has(fields, "publication") THEN Some(fields["publication"]) ELSE None,
         url |-> Get(item, "webUrl", ""),
         raw |-> item]

ArticleFromGuardian(item) ==
    LET fields == Get(item, "fields", EmptyDict)
    IN  [id |-> item["id"],
         title |-> Get(fields, "headline", Get(item, "webTitle", "")),
         body |-> Get(fields, "bodyText", ""),
         section |-> IF Has(item, "sectionName") THEN Some(item["sectionName"]) ELSE None,
         publication |-> IF Has(fields, "publication") THEN Some(fields["publication"]) ELSE None,
         url |-> Get(item, "webUrl", ""),
         raw |-> item]

\* The raw records a search is modelled to return: every key of the record
\* and of its "fields" object present or missing.
FieldsValues == [headline |-> "H", bodyText |-> "B", publication |-> "P"]
FieldsDicts == {[k \in K |-> FieldsValues[k]] : K \in SUBSET DOMAIN FieldsValues}
TopValues == [id |-> "a1", webTitle |-> "W", sectionName |-> "S", webUrl |-> "U"]
RawRecords ==
    {[k \in K |-> IF k = "fields" THEN f ELSE TopValues[k]] :
        K \in SUBSET (DOMAIN TopValues \cup {"fields"}), f \in FieldsDicts}

InitNormalizeWith(items) ==
    /\ nm_pc = "called"
    /\ nm_item \in items
    /\ nm_out = None
    /\ nm_error = "None"

\* article_from_guardian returns the Article.
NormalizeReturns ==
    /\ nm_pc = "called"
    /\ ~ArticleFromGuardianRaises(nm_item)
    /\ nm_pc' = "returned"
    /\ nm_out' = Some(ArticleFromGuardian(nm_item))
    /\ UNCHANGED <<nm_item, nm_error>>
    /\ UNCHANGED nonNmVars

\* item["id"] raises KeyError.
NormalizeRaises ==
    /\ nm_pc = "called"
    /\ ArticleFromGuardianRaises(nm_item)
    /\ nm_pc' = "raised"
    /\ nm_error' = "KeyError"
    /\ UNCHANGED <<nm_item, nm_out>>
    /\ UNCHANGED nonNmVars

(***************************************************************************)
(* orchestrator/pipeline.py                                                *)
(***************************************************************************)
DEFAULT_ANALYZE_LIMIT == 2
default_max_retries == 3
default_base_backoff == 100
default_max_backoff == 3000

\* The raw search results the API is modelled to return: record i of a page,
\* with or without its id.
RawItem(i, withId) ==
    IF withId
    THEN [id |-> i, webTitle |-> "title", webUrl |-> "url"]
    ELSE [webTitle |-> "title", webUrl |-> "url"]

\* The kinds of exception get_all_articles lets through.
FetchErrors ==
    {"APITimeoutError", "APIConnectionError", "APIAuthError", "APIClientError",
     "APIServerError"}

\* The kinds of exception llm_client.analyze_article is modelled to raise
\* (all of them subclasses of Exception).
LlmErrors == {"AuthError", "QuotaError", "TransportError"}

\* repr(e)
Repr(e) == e \o "()"

NoFile == [exists |-> FALSE, lines |-> <<>>]
\* json.dumps(x) + "\n"
JsonLine(x) == [json |-> x]
WriteFile(items) ==
    [exists |-> TRUE, lines |-> [i \in 1..Len(items) |-> JsonLine(items[i])]]
\* A failures file left by an earlier run for the same date.
StaleFailure == [article_id |-> 0, title |-> "old", url |-> "old",
                 attempts |-> default_max_retries, error |-> Repr("QuotaError")]
StaleFailFile == WriteFile(<<StaleFailure>>)

InitOrchWith(envs, failFiles) ==
    /\ pc = "idle"
    /\ mode = "none"
    /\ env \in envs
    /\ llm_client = "None"
    /\ analyze_limit = None
    /\ fetched = <<>>
    /\ articles = <<>>
    /\ max_retries = default_max_retries
    /\ base_backoff = default_base_backoff
    /\ max_backoff = default_max_backoff
    /\ idx = 0
    /\ attempt = 0
    /\ successes = <<>>
    /\ failures = <<>>
    /\ last_call = NoCall
    /\ calls = <<>>
    /\ orch_error = "None"
    /\ mainFile = NoFile
    /\ failFile \in failFiles

InitOrch ==
    InitOrchWith([guardian : BOOLEAN, gemini : BOOLEAN], {NoFile, StaleFailFile})

\* The entry point raises `kind`.
OrchRaise(kind) ==
    /\ pc' = "raised"
    /\ orch_error' = kind

\* run_pipeline_for_date is called: lines 183-189.
CallRunPipeline ==
    /\ pc = "idle"
    /\ mode' = "pipeline"
    /\ \E client \in {"None", "stub"},
          lim \in {None} \cup {Some(n) : n \in 0..MaxLimitArg} :
         /\ llm_client' = client
         /\ analyze_limit' = lim
    /\ IF env.guardian
       THEN pc' = "fetch" /\ UNCHANGED orch_error
       ELSE OrchRaise("RuntimeError")
    /\ UNCHANGED <<env, fetched, articles, max_retries, base_backoff, max_backoff, idx, attempt, successes,
                   failures, last_call, calls, mainFile, failFile>>
    /\ UNCHANGED nonOrchVars

\* FetchRaises leaving an empty success file behind.
FetchRaises_TruncatesOutput ==
    /\ pc = "fetch"
    /\ \E kind \in FetchErrors : OrchRaise(kind)
    /\ mainFile' = WriteFile(<<>>)
    /\ UNCHANGED <<mode, env, llm_client, analyze_limit, fetched, articles,
                   max_retries, base_backoff, max_backoff, idx, attempt,
                   successes, failures, last_call, calls, failFile>>
    /\ UNCHANGED nonOrchVars

\* fetch_articles_for_date: client.get_all_articles raises.
FetchRaises ==
    /\ pc = "fetch"
    /\ \E kind \in FetchErrors : OrchRaise(kind)
    /\ UNCHANGED <<mode, env, llm_client, analyze_limit, fetched, articles,
                   max_retries, base_backoff, max_backoff, idx, attempt, successes, failures, last_call,
                   calls, mainFile, failFile>>
    /\ UNCHANGED nonOrchVars

\* articles[:limit] with limit = max(1, min(len(articles), effective_limit))
SelectArticles(arts, lim) ==
    LET effective_limit == IF lim = None THEN DEFAULT_ANALYZE_LIMIT ELSE lim[1]
        limit == Max(1, Min(Len(arts), effective_limit))
    IN  SubSeq(arts, 1, Min(limit, Len(arts)))

\* fetch_articles_for_date: client.get_all_articles returns n raw records
\* (record `bad`, if any, has no id), each is normalised, and
\* run_pipeline_for_date goes on to call analyze_articles (lines 191-194).
FetchReturns ==
    /\ pc = "fetch"
    /\ \E n \in 0..MaxArticles, bad \in 0..MaxArticles :
         LET raw_results == [i \in 1..n |-> RawItem(i, i # bad)]
         IN  IF \E i \in 1..n : ArticleFromGuardianRaises(raw_results[i])
             THEN /\ OrchRaise("KeyError")
                  /\ UNCHANGED <<fetched, articles, max_retries, base_backoff, max_backoff>>
             ELSE /\ fetched' = [i \in 1..n |-> ArticleFromGuardian(raw_results[i])]
                  /\ articles' = SelectArticles(fetched', analyze_limit)
                  /\ max_retries' = default_max_retries
                  /\ base_backoff' = default_base_backoff
                  /\ max_backoff' = default_max_backoff
                  /\ pc' = "enter"
                  /\ UNCHANGED orch_error
    /\ UNCHANGED <<mode, env, llm_client, analyze_limit, idx, attempt, successes,
                   failures, last_call, calls, mainFile, failFile>>
    /\ UNCHANGED nonOrchVars

MaxBackoffArticles == 1   \* longest article list passed with a base_backoff of its own

\* The (base_backoff, max_backoff) pairs a direct caller is modelled to
\* pass with n articles: the defaults, and for short lists a base of 20 s
\* that reaches the cap at attempt 2.
BackoffArgs(n) ==
    {[base |-> default_base_backoff, max |-> default_max_backoff]}
    \cup (IF n <= MaxBackoffArticles
           THEN {[base |-> Seconds(20), max |-> default_max_backoff]}
           ELSE {})

\* analyze_articles is called directly, with distinct article ids.
CallAnalyzeArticles ==
    /\ pc = "idle"
    /\ mode' = "direct"
    /\ pc' = "enter"
    /\ \E n \in 0..MaxArticles, client \in {"None", "stub"}, r \in 0..MaxRetriesArg :
       \E b \in BackoffArgs(n) :
         /\ articles' = [i \in 1..n |-> ArticleFromGuardian(RawItem(i, TRUE))]
         /\ llm_client' = client
         /\ max_retries' = r
         /\ base_backoff' = b.base
         /\ max_backoff' = b.max
    /\ UNCHANGED <<env, analyze_limit, fetched, idx, attempt, successes, failures,
                   last_call, calls, orch_error, mainFile, failFile>>
    /\ UNCHANGED nonOrchVars

\* AnalyzeEnter building the default client even when one was passed.
AnalyzeEnter_AlwaysDefaultClient ==
    /\ pc = "enter"
    /\ IF ~env.gemini
       THEN /\ OrchRaise("RuntimeError")
            /\ UNCHANGED <<llm_client, idx, attempt, successes, failures>>
       ELSE /\ llm_client' = "gemini"
            /\ successes' = <<>>
            /\ failures' = <<>>
            /\ idx' = 1
            /\ attempt' = 1
            /\ pc' = "loop"
            /\ UNCHANGED orch_error
    /\ UNCHANGED <<mode, env, analyze_limit, fetched, articles, max_retries, base_backoff, max_backoff,
                   last_call, calls, mainFile, failFile>>
    /\ UNCHANGED nonOrchVars

\* analyze_articles, lines 89-93: the default client is built when none is
\* given, which needs GEMINI_API_KEY.
AnalyzeEnter ==
    /\ pc = "enter"
    /\ IF llm_client = "None" /\ ~env.gemini
       THEN /\ OrchRaise("RuntimeError")
            /\ UNCHANGED <<llm_client, idx, attempt, successes, failures>>
       ELSE /\ llm_client' = IF llm_client = "None" THEN "gemini" ELSE llm_client
            /\ successes' = <<>>
            /\ failures' = <<>>
            /\ idx' = 1
            /\ attempt' = 1
            /\ pc' = "loop"
            /\ UNCHANGED orch_error
    /\ UNCHANGED <<mode, env, analyze_limit, fetched, articles, max_retries, base_backoff, max_backoff,
                   last_call, calls, mainFile, failFile>>
    /\ UNCHANGED nonOrchVars

\* The inner loop is at `attempt` for article number idx.
InLoop ==
    /\ pc = "loop"
    /\ idx <= Len(articles)

\* The outcome of the call llm_client.analyze_article(a) being made now, and
\* the time.sleep calls made after it before the next call.
CalledAndSlept(exc, slept) ==
    /\ last_call' = [article |-> idx, attempt |-> attempt, exc |-> exc, slept |-> slept]
    /\ calls' = Append(calls, [article |-> idx, attempt |-> attempt, ok |-> exc = "None"])
Called(exc) == CalledAndSlept(exc, <<>>)

\* AnalyzeBackoff without the max_backoff cap.
AnalyzeBackoff_NoCap(k) == base_backoff * Pow2(k - 1)

\* Lines 120-121: sleep_time, with random.uniform sampled at step j.
AnalyzeBackoff(k) == Min(max_backoff, base_backoff * Pow2(k - 1))
AnalyzeSleepTime(k, j) == AnalyzeBackoff(k) + Jitter(AnalyzeBackoff(k), j)

\* range(1, max_retries + 1) is empty: the article is passed over (line 98).
AnalyzeNoAttempt ==
    /\ InLoop
    /\ attempt > max_retries
    /\ idx' = idx + 1
    /\ attempt' = 1
    /\ UNCHANGED <<pc, mode, env, llm_client, analyze_limit, fetched, articles,
                   max_retries, base_backoff, max_backoff, successes, failures, last_call, calls, orch_error,
                   mainFile, failFile>>
    /\ UNCHANGED nonOrchVars

\* AnalyzeSuccess putting the new analysis in front of the list.
AnalyzeSuccess_Prepend ==
    /\ InLoop
    /\ attempt <= max_retries
    /\ Called("None")
    /\ successes' = <<[article_id |-> articles[idx].id]>> \o successes
    /\ idx' = idx + 1
    /\ attempt' = 1
    /\ UNCHANGED <<pc, mode, env, llm_client, analyze_limit, fetched, articles,
                   max_retries, base_backoff, max_backoff, failures, orch_error, mainFile, failFile>>
    /\ UNCHANGED nonOrchVars

\* analyze_article returns (lines 100-104).
AnalyzeSuccess ==
    /\ InLoop
    /\ attempt <= max_retries
    /\ Called("None")
    /\ successes' = Append(successes, [article_id |-> articles[idx].id])
    /\ idx' = idx + 1
    /\ attempt' = 1
    /\ UNCHANGED <<pc, mode, env, llm_client, analyze_limit, fetched, articles,
                   max_retries, base_backoff, max_backoff, failures, orch_error, mainFile, failFile>>
    /\ UNCHANGED nonOrchVars

FailureRecord(a, attempts, e) ==
    [article_id |-> a.id, title |-> a.title, url |-> a.url,
     attempts |-> attempts, error |-> Repr(e)]

\* AnalyzeFailure appending a failure record at every failed attempt.
AnalyzeFailure_RecordEvery ==
    /\ InLoop
    /\ attempt <= max_retries
    /\ \E e \in LlmErrors :
         /\ failures' = Append(failures, FailureRecord(articles[idx], attempt, e))
         /\ IF attempt = max_retries
            THEN Called(e) /\ idx' = idx + 1 /\ attempt' = 1
            ELSE /\ \E j \in 0..JitterSteps :
                      CalledAndSlept(e, <<AnalyzeSleepTime(attempt, j)>>)
                 /\ attempt' = attempt + 1 /\ UNCHANGED idx
    /\ UNCHANGED <<pc, mode, env, llm_client, analyze_limit, fetched, articles,
                   max_retries, base_backoff, max_backoff, successes, orch_error, mainFile, failFile>>
    /\ UNCHANGED nonOrchVars

\* AnalyzeFailure letting the exception of the last attempt escape.
AnalyzeFailure_Reraise ==
    /\ InLoop
    /\ attempt <= max_retries
    /\ \E e \in LlmErrors :
         /\ IF attempt = max_retries
            THEN /\ Called(e)
                 /\ OrchRaise(e)
                 /\ UNCHANGED attempt
            ELSE /\ \E j \in 0..JitterSteps :
                      CalledAndSlept(e, <<AnalyzeSleepTime(attempt, j)>>)
                 /\ attempt' = attempt + 1
                 /\ UNCHANGED <<pc, orch_error>>
    /\ UNCHANGED <<mode, env, llm_client, analyze_limit, fetched, articles,
                   max_retries, base_backoff, max_backoff, idx, successes, failures, mainFile, failFile>>
    /\ UNCHANGED nonOrchVars

\* analyze_article raises an Exception (lines 105-130).
AnalyzeFailure ==
    /\ InLoop
    /\ attempt <= max_retries
    /\ \E e \in LlmErrors :
         /\ IF attempt = max_retries
            THEN /\ Called(e)
                 /\ failures' = Append(failures, FailureRecord(articles[idx], attempt, e))
                 /\ idx' = idx + 1
                 /\ attempt' = 1
            ELSE /\ \E j \in 0..JitterSteps :
                      CalledAndSlept(e, <<AnalyzeSleepTime(attempt, j)>>)
                 /\ attempt' = attempt + 1
                 /\ UNCHANGED <<failures, idx>>
    /\ UNCHANGED <<pc, mode, env, llm_client, analyze_limit, fetched, articles,
                   max_retries, base_backoff, max_backoff, successes, orch_error, mainFile, failFile>>
    /\ UNCHANGED nonOrchVars

\* AnalyzeReturn leaving the loop over the articles at any point.
AnalyzeReturn_BeforeEnd ==
    /\ pc = "loop"
    /\ pc' = IF mode = "pipeline" THEN "save" ELSE "returned"
    /\ UNCHANGED <<mode, env, llm_client, analyze_limit, fetched, articles,
                   max_retries, base_backoff, max_backoff, idx, attempt,
                   successes, failures, last_call, calls, orch_error, mainFile,
                   failFile>>
    /\ UNCHANGED nonOrchVars

\* analyze_articles returns (successes, failures) (line 133).
AnalyzeReturn ==
    /\ pc = "loop"
    /\ idx > Len(articles)
    /\ pc' = IF mode = "pipeline" THEN "save" ELSE "returned"
    /\ UNCHANGED <<mode, env, llm_client, analyze_limit, fetched, articles,
                   max_retries, base_backoff, max_backoff, idx, attempt, successes, failures, last_call,
                   calls, orch_error, mainFile, failFile>>
    /\ UNCHANGED nonOrchVars

\* SaveAnalysis called without the failures argument.
SaveAnalysis_NoFailures ==
    /\ pc = "save"
    /\ mainFile' = WriteFile(successes)
    /\ pc' = "done"
    /\ UNCHANGED <<mode, env, llm_client, analyze_limit, fetched, articles,
                   max_retries, base_backoff, max_backoff, idx, attempt, successes, failures, last_call,
                   calls, orch_error, failFile>>
    /\ UNCHANGED nonOrchVars

\* save_analysis, then run_pipeline_for_date returns out_path (lines 195-201).
SaveAnalysis ==
    /\ pc = "save"
    /\ mainFile' = WriteFile(successes)
    /\ failFile' = IF failures # <<>> THEN WriteFile(failures) ELSE failFile
    /\ pc' = "done"
    /\ UNCHANGED <<mode, env, llm_client, analyze_limit, fetched, articles,
                   max_retries, base_backoff, max_backoff, idx, attempt, successes, failures, last_call,
                   calls, orch_error>>
    /\ UNCHANGED nonOrchVars

(***************************************************************************)
(* BaseClient.get_all_articles                                             *)
(***************************************************************************)
MaxCalls == 3         \* _request calls modelled per get_all_articles call
MaxReported == 3      \* largest currentPage / pages value an envelope reports

\* d[k] = v, as a Python dict assignment does it.
SetKey(d, k, v) == [x \in DOMAIN d \cup {k} |-> IF x = k THEN v ELSE d[x]]

\* The params mappings a caller is modelled to pass: the one of
\* fetch_articles_for_date (page 1), one without a page entry, one with
\* another page.
BaseParams == "order-by" :> "newest"
CallerParams == {SetKey(BaseParams, "page", 1), BaseParams, SetKey(BaseParams, "page", 3)}

\* The results list of page p when it holds n records.
PageResults(p, n) == [i \in 1..n |-> <<p, i>>]
PageSizes == {0, 1, 10}

\* The "response" object of a body, each of its keys present or not.
ResponseDict(cp, pages, results) ==
    [k \in (IF cp = None THEN {} ELSE {"currentPage"})
             \cup (IF pages = None THEN {} ELSE {"pages"})
             \cup (IF results = None THEN {} ELSE {"results"}) |->
        IF k = "currentPage" THEN cp[1]
        ELSE IF k = "pages" THEN pages[1]
        ELSE results[1]]
Optional(S) == {None} \cup {Some(x) : x \in S}
\* The JSON bodies the server is modelled to answer page p with.
Bodies(p) ==
    {EmptyDict} \cup
    {[response |-> ResponseDict(cp, pages, results)] :
        cp \in Optional(0..MaxReported), pages \in Optional(0..MaxReported),
        results \in Optional({PageResults(p, n) : n \in PageSizes})}

NoBody == [kind |-> "none", error |-> "None", data |-> EmptyDict]

InitPagesWith(paramSets) ==
    /\ pg_pc = "idle"
    /\ pg_params \in paramSets
    /\ pg_params0 = pg_params
    /\ pg_page = 0
    /\ pg_results = None
    /\ pg_sizes = <<>>
    /\ pg_requests = <<>>
    /\ pg_last = NoBody
    /\ pg_returned = None
    /\ pg_error = "None"

\* get_all_articles is entered (lines 153-154).
GetAllArticlesCall ==
    /\ pg_pc = "idle"
    /\ pg_pc' = "loop"
    /\ pg_page' = 1
    /\ pg_results' = None
    /\ UNCHANGED <<pg_params, pg_params0, pg_sizes, pg_requests, pg_last,
                   pg_returned, pg_error>>
    /\ UNCHANGED nonPgVars

\* The loop body starts: params['page'] = page, then _request is called with
\* params (lines 156-158).
RequestingPage ==
    /\ pg_pc = "loop"
    /\ Len(pg_requests) < MaxCalls
    /\ pg_params' = SetKey(pg_params, "page", pg_page)
    /\ pg_requests' = Append(pg_requests, pg_params'["page"])
    /\ UNCHANGED pg_params0
    /\ UNCHANGED nonPgVars

\* What _request lets through.
RequestErrors ==
    {"APITimeoutError", "APIConnectionError", "APIAuthError", "APIClientError",
     "APIServerError", "ValueError"}

\* PageRequestRaises swallowing the error and returning the pages it has.
PageRequestRaises_ReturnPartial ==
    /\ RequestingPage
    /\ \E kind \in RequestErrors :
         pg_last' = [kind |-> "raised", error |-> kind, data |-> EmptyDict]
    /\ pg_pc' = "returned"
    /\ pg_returned' = IF pg_results = None THEN Some(<<>>) ELSE pg_results
    /\ UNCHANGED <<pg_page, pg_results, pg_sizes, pg_error>>

\* _request raises: `except Exception as e: raise e` (lines 159-160).
PageRequestRaises ==
    /\ RequestingPage
    /\ \E kind \in RequestErrors :
         /\ pg_last' = [kind |-> "raised", error |-> kind, data |-> EmptyDict]
         /\ pg_error' = kind
    /\ pg_pc' = "raised"
    /\ UNCHANGED <<pg_page, pg_results, pg_sizes, pg_returned>>

\* _request returns None, or a response whose body is not JSON: response.json()
\* raises (line 161).
PageBodyUnusable ==
    /\ RequestingPage
    /\ \E kind \in {"AttributeError", "JSONDecodeError"} :
         /\ pg_last' = [kind |-> "unusable", error |-> kind, data |-> EmptyDict]
         /\ pg_error' = kind
    /\ pg_pc' = "raised"
    /\ UNCHANGED <<pg_page, pg_results, pg_sizes, pg_returned>>

\* data.get('response', {}).get(k, default)
ResponseGet(data, k, default) == Get(Get(data, "response", EmptyDict), k, default)

\* Accumulate keeping only the latest page.
Accumulate_Overwrite(results, page_results) == Some(page_results)

\* results = page results, or results.extend(page results) (lines 162-165).
Accumulate(results, page_results) ==
    IF results = None THEN Some(page_results) ELSE Some(results[1] \o page_results)

\* The page's envelope says it is the last one (line 166).
IsLastPage(data) ==
    ResponseGet(data, "currentPage", 0) >= ResponseGet(data, "pages", 0)

\* _request returns a response with a JSON body (lines 161-170).
PageReturns ==
    /\ RequestingPage
    /\ \E data \in Bodies(pg_page) :
         LET page_results == ResponseGet(data, "results", <<>>)
         IN  /\ pg_last' = [kind |-> "body", error |-> "None", data |-> data]
             /\ pg_results' = Accumulate(pg_results, page_results)
             /\ pg_sizes' = Append(pg_sizes, Len(page_results))
             /\ IF IsLastPage(data)
                THEN /\ pg_pc' = "returned"
                     /\ pg_returned' = pg_results'
                     /\ UNCHANGED pg_page
                ELSE /\ pg_page' = pg_page + 1
                     /\ UNCHANGED <<pg_pc, pg_returned>>
    /\ UNCHANGED pg_error

(***************************************************************************)
(* logging_utils.py and the debug record of BaseClient._request            *)
(***************************************************************************)
MaxLogged == 2        \* _request calls whose debug record is kept

\* Parameter names are sequences of one-character strings.
UpperChars == <<"A", "B", "C", "D", "E", "F", "G", "H", "I", "J", "K", "L", "M",
                "N", "O", "P", "Q", "R", "S", "T", "U", "V", "W", "X", "Y", "Z">>
LowerChars == <<"a", "b", "c", "d", "e", "f", "g", "h", "i", "j", "k", "l", "m",
                "n", "o", "p", "q", "r", "s", "t", "u", "v", "w", "x", "y", "z">>
\* str.lower()
Lower(s) ==
    [i \in 1..Len(s) |->
        IF \E n \in 1..26 : UpperChars[n] = s[i]
        THEN LowerChars[CHOOSE n \in 1..26 : UpperChars[n] = s[i]]
        ELSE s[i]]
\* p in s, for two texts
Contains(p, s) ==
    \E i \in 0..(Len(s) - Len(p)) : SubSeq(s, i + 1, i + Len(p)) = p

REDACT_KEYS ==
    {<<"k", "e", "y">>, <<"t", "o", "k", "e", "n">>,
     <<"s", "e", "c", "r", "e", "t">>,
     <<"p", "a", "s", "s", "w", "o", "r", "d">>, <<"a", "p", "i">>}
_should_redact(k) == \E p \in REDACT_KEYS : Contains(p, Lower(k))

REDACTED == "<REDACTED>"
ApiKeyName == <<"a", "p", "i", "-", "k", "e", "y">>
\* The keys _request replaces in its copy for logging (line 72).
SecretKeys ==
    {ApiKeyName, <<"a", "p", "i", "_", "k", "e", "y">>, <<"k", "e", "y">>,
     <<"a", "c", "c", "e", "s", "s", "_", "t", "o", "k", "e", "n">>,
     <<"t", "o", "k", "e", "n">>}

\* The parameter names and values a caller is modelled to pass, and the keys
\* a client is modelled to hold.
ParamNames ==
    {<<"q">>, <<"t", "o", "k", "e", "n">>,
     <<"p", "a", "s", "s", "w", "o", "r", "d">>,
     <<"C", "l", "i", "e", "n", "t", "_", "S", "e", "c", "r", "e", "t">>}
ParamValues == {"v1", "v2"}
ApiKeys == {"K1", "K2"}
RequestParamSets ==
    UNION {[names -> ParamValues] : names \in SUBSET ParamNames}

\* Lines 63-68: a copy of params with the client's key under "api-key".
RequestParams(params, api_key) == SetKey(params, ApiKeyName, api_key)
\* Lines 71-74: the copy that is logged.
SafeParams(request_params) ==
    [k \in DOMAIN request_params |->
        IF k \in SecretKeys THEN REDACTED ELSE request_params[k]]

InitLogWith(levels) ==
    /\ lg_debug \in levels
    /\ lg_requests = <<>>
    /\ lg_log = <<>>

\* _request up to its debug record (lines 60-77): with DEBUG enabled the
\* record carries safe_params, otherwise no record is emitted.
DebugRequest ==
    /\ Len(lg_requests) < MaxLogged
    /\ \E params \in RequestParamSets, api_key \in ApiKeys :
         LET request_params == RequestParams(params, api_key)
             safe_params == SafeParams(request_params)
         IN  /\ lg_requests' = Append(lg_requests, [params |-> params, api_key |-> api_key])
             /\ lg_log' = Append(lg_log, IF lg_debug THEN Some(safe_params) ELSE None)
    /\ UNCHANGED lg_debug
    /\ UNCHANGED nonLgVars

(***************************************************************************)
(* llm_client: _parse_response (gemini_client.py, openai_client.py)        *)
(***************************************************************************)
MaxEntities == 2      \* longest key_entities list of a payload

\* JSON values as json.loads returns them.  Numbers are the integers; texts
\* are sequences of one-character strings.
Null == [t |-> "null", v |-> 0]
Num(n) == [t |-> "num", v |-> n]
Str(s) == [t |-> "str", v |-> s]
List(l) == [t |-> "list", v |-> l]
Obj(d) == [t |-> "obj", v |-> d]

\* str.strip()
RECURSIVE LStrip(_)
LStrip(s) == IF s # <<>> /\ s[1] = " " THEN LStrip(Tail(s)) ELSE s
RECURSIVE RStrip(_)
RStrip(s) ==
    IF s # <<>> /\ s[Len(s)] = " " THEN RStrip(SubSeq(s, 1, Len(s) - 1)) ELSE s
Strip(s) == RStrip(LStrip(s))

\* The decimal text of an integer, as str() gives it.
RECURSIVE NatText(_)
NatText(n) ==
    IF n < 10 THEN <<Digits[n + 1]>>
    ELSE NatText(n \div 10) \o <<Digits[(n % 10) + 1]>>
IntText(n) == IF n < 0 THEN <<"-">> \o NatText(0 - n) ELSE NatText(n)

\* float(x): a number is itself; a text is parsed after stripping (the texts
\* of the model are integer literals or not numbers at all); None, lists and
\* dicts raise TypeError, other texts ValueError.
PyFloat(x) ==
    CASE x.t = "num" -> [ok |-> TRUE, v |-> x.v, exc |-> "None"]
      [] x.t = "str" ->
            IF IntParses(Strip(x.v))
            THEN [ok |-> TRUE, v |-> IntOf(Strip(x.v)), exc |-> "None"]
            ELSE [ok |-> FALSE, v |-> 0, exc |-> "ValueError"]
      [] OTHER -> [ok |-> FALSE, v |-> 0, exc |-> "TypeError"]

\* str(x) for the scalar values
PyStr(x) ==
    CASE x.t = "str" -> x.v
      [] x.t = "num" -> IntText(x.v)
      [] x.t = "null" -> <<"N", "o", "n", "e">>

\* bool(x), as `or` applies it
Truthy(x) ==
    CASE x.t = "null" -> FALSE
      [] x.t = "num" -> x.v # 0
      [] x.t = "str" -> x.v # <<>>
      [] x.t = "list" -> x.v # <<>>
      [] x.t = "obj" -> DOMAIN x.v # {}

\* data.get(k) or []
GetOrEmptyList(data, k) ==
    IF Has(data, k) /\ Truthy(data[k]) THEN data[k] ELSE List(<<>>)

\* Iterating a value: a list gives its items, a text its characters, a number
\* raises TypeError.
Iterable(x) == x.t \in {"list", "str"}
Items(x) ==
    IF x.t = "list" THEN x.v ELSE [i \in 1..Len(x.v) |-> Str(<<x.v[i]>>)]

\* Lines 84-93: building one Entity raises when e has no .get (it is not a
\* dict) or float() rejects its salience; the except clause skips it.
EntityRaises(e) ==
    \/ e.t # "obj"
    \/ ~PyFloat(Get(e.v, "salience", Num(0))).ok
Entity(e) ==
    [text |-> PyStr(Get(e.v, "text", Str(<<>>))),
     type |-> PyStr(Get(e.v, "type", Str(<<"U", "N", "K", "N", "O", "W", "N">>))),
     salience |-> PyFloat(Get(e.v, "salience", Num(0))).v]

RECURSIVE ParseEntities(_)
ParseEntities(raw) ==
    IF raw = <<>> THEN <<>>
    ELSE IF EntityRaises(raw[1]) THEN ParseEntities(Tail(raw))
    ELSE <<Entity(raw[1])>> \o ParseEntities(Tail(raw))

\* The exception _parse_response raises for data, "None" when it returns:
\* the statements in their order (lines 76-95).
ParseError(data) ==
    LET sentiment == PyFloat(Get(data, "sentiment", Num(0)))
        topics_raw == GetOrEmptyList(data, "topics")
        entities_raw == GetOrEmptyList(data, "key_entities")
        confidence == PyFloat(Get(data, "confidence", Num(0)))
    IN  IF ~sentiment.ok THEN sentiment.exc
        ELSE IF ~Iterable(topics_raw) THEN "TypeError"
        ELSE IF ~Iterable(entities_raw) THEN "TypeError"
        ELSE IF ~confidence.ok THEN confidence.exc
        ELSE "None"

\* The ArticleAnalysis built (lines 76-105).
ParseResponse(article_id, data) ==
    [article_id |-> article_id,
     sentiment |-> PyFloat(Get(data, "sentiment", Num(0))).v,
     summary |-> Strip(PyStr(Get(data, "summary", Str(<<>>)))),
     key_entities |-> ParseEntities(Items(GetOrEmptyList(data, "key_entities"))),
     topics |-> LET raw == Items(GetOrEmptyList(data, "topics"))
                IN  [i \in 1..Len(raw) |-> PyStr(raw[i])],
     confidence |-> PyFloat(Get(data, "confidence", Num(0))).v,
     raw_llm_response |-> data]

\* The entities a backend is modelled to answer with: two well-formed ones,
\* one without text, one whose salience is not a number, one that is not an
\* object.
GoodEntity1 ==
    Obj([text |-> Str(<<"U", "K">>), type |-> Str(<<"L", "O", "C">>), salience |-> Num(1)])
GoodEntity2 ==
    Obj([text |-> Str(<<"B", "B", "C">>), type |-> Str(<<"O", "R", "G">>), salience |-> Num(0)])
NoTextEntity == Obj([type |-> Str(<<"O", "R", "G">>), salience |-> Num(1)])
BadSalienceEntity ==
    Obj([text |-> Str(<<"E", "U">>), salience |-> Str(<<"h", "i", "g", "h">>)])
NotAnObject == Str(<<"U", "K">>)
EntityValues ==
    {GoodEntity1, GoodEntity2, NoTextEntity, BadSalienceEntity, NotAnObject}
EntityLists == UNION {[1..n -> EntityValues] : n \in 0..MaxEntities}

\* The values of each field of a payload; None stands for a missing key.
SentimentValues ==
    Optional({Null, Num(1), Num(5), Str(<<" ", "-", "1">>), Str(<<"b", "a", "d">>)})
SummaryValues == Optional({Null, Str(<<" ", "o", "k", " ">>), Num(12)})
TopicsValues ==
    Optional({Null, List(<<Str(<<"u", "k">>), Num(7)>>), Str(<<"u", "k">>), Num(5)})
EntitiesValues == Optional({Null, Num(5)} \cup {List(l) : l \in EntityLists})
ConfidenceValues == Optional({Null, Num(1), Num(2), Str(<<"b", "a", "d">>)})

Payload(sentiment, summary, topics, key_entities, confidence) ==
    [k \in (IF sentiment = None THEN {} ELSE {"sentiment"})
             \cup (IF summary = None THEN {} ELSE {"summary"})
             \cup (IF topics = None THEN {} ELSE {"topics"})
             \cup (IF key_entities = None THEN {} ELSE {"key_entities"})
             \cup (IF confidence = None THEN {} ELSE {"confidence"}) |->
        CASE k = "sentiment" -> sentiment[1]
          [] k = "summary" -> summary[1]
          [] k = "topics" -> topics[1]
          [] k = "key_entities" -> key_entities[1]
          [] k = "confidence" -> confidence[1]]
Payloads ==
    {Payload(s, m, t, e, c) :
        s \in SentimentValues, m \in SummaryValues, t \in TopicsValues,
        e \in EntitiesValues, c \in ConfidenceValues}

ArticleId == "a1"

InitParseWith(payloads) ==
    /\ pr_pc = "called"
    /\ pr_data \in payloads
    /\ pr_out = None
    /\ pr_error = "None"

\* _parse_response returns the ArticleAnalysis.
ParseReturns ==
    /\ pr_pc = "called"
    /\ ParseError(pr_data) = "None"
    /\ pr_pc' = "returned"
    /\ pr_out' = Some(ParseResponse(ArticleId, pr_data))
    /\ UNCHANGED <<pr_data, pr_error>>
    /\ UNCHANGED nonPrVars

\* One of its statements outside the try block raises.
ParseRaises ==
    /\ pr_pc = "called"
    /\ ParseError(pr_data) # "None"
    /\ pr_pc' = "raised"
    /\ pr_error' = ParseError(pr_data)
    /\ UNCHANGED <<pr_data, pr_out>>
    /\ UNCHANGED nonPrVars

(***************************************************************************)
(* cli/run_analysis.py main, config.setup_logging, logging_utils.trace     *)
(***************************************************************************)
MaxTraced == 3        \* calls of @trace-decorated functions after setup_logging

\* The levels of the logging module.
LoggingLevel ==
    [NOTSET |-> 0, DEBUG |-> 10, INFO |-> 20, WARNING |-> 30, ERROR |-> 40,
     CRITICAL |-> 50]
LevelNames ==
    [NOTSET |-> <<"N", "O", "T", "S", "E", "T">>,
     DEBUG |-> <<"D", "E", "B", "U", "G">>,
     INFO |-> <<"I", "N", "F", "O">>,
     WARNING |-> <<"W", "A", "R", "N", "I", "N", "G">>,
     ERROR |-> <<"E", "R", "R", "O", "R">>,
     CRITICAL |-> <<"C", "R", "I", "T", "I", "C", "A", "L">>]

\* str.upper()
Upper(s) ==
    [i \in 1..Len(s) |->
        IF \E n \in 1..26 : LowerChars[n] = s[i]
        THEN UpperChars[CHOOSE n \in 1..26 : LowerChars[n] = s[i]]
        ELSE s[i]]

\* parse_level for a text: "TRACE" is INFO, a number is itself, a level name
\* of the logging module is its level, anything else WARNING.
parse_level(lv) ==
    LET name == Upper(lv)
    IN  IF name = <<"T", "R", "A", "C", "E">> THEN LoggingLevel.INFO
        ELSE IF IntParses(name) THEN IntOf(name)
        ELSE IF \E k \in DOMAIN LevelNames : LevelNames[k] = name
             THEN LoggingLevel[CHOOSE k \in DOMAIN LevelNames : LevelNames[k] = name]
        ELSE LoggingLevel.WARNING

\* The --log-level values the CLI is modelled to be given; the first is the
\* default.
DefaultLogLevel == LevelNames.WARNING
LogLevelArgs ==
    {DefaultLogLevel, <<"d", "e", "b", "u", "g">>, LevelNames.INFO,
     LevelNames.ERROR, <<"T", "R", "A", "C", "E">>, <<"1", "0">>,
     <<"l", "o", "u", "d">>}

\* main, lines 64-73: the level handed to setup_logging.
RequestedLevel(trace_flag, log_level) ==
    IF trace_flag /\ parse_level(log_level) > LoggingLevel.INFO
    THEN LevelNames.INFO
    ELSE log_level

\* logger.isEnabledFor(logging.DEBUG) for a module logger, whose effective
\* level is the root level.
TraceEnabled == tr_level <= LoggingLevel.DEBUG

InitTrace ==
    /\ tr_pc = "start"
    /\ tr_trace = FALSE
    /\ tr_log_level = DefaultLogLevel
    /\ tr_level = LoggingLevel.WARNING
    /\ tr_calls = <<>>
    /\ tr_log = <<>>

\* main up to setup_logging (lines 61-75): the root level is set; the import
\* of set_tracing fails and is passed over, so the flag changes nothing else.
\* The decorated functions called so far ran at the initial WARNING level.
CliSetupLogging ==
    /\ tr_pc = "start"
    /\ \E trace_flag \in BOOLEAN, log_level \in LogLevelArgs :
         /\ tr_trace' = trace_flag
         /\ tr_log_level' = log_level
         /\ tr_level' = parse_level(RequestedLevel(trace_flag, log_level))
    /\ tr_pc' = "configured"
    /\ UNCHANGED <<tr_calls, tr_log>>
    /\ UNCHANGED nonTrVars

\* The records one call of a decorated function adds (lines 64-77).
TraceRecords(n) ==
    IF TraceEnabled THEN <<[kind |-> "enter", call |-> n], [kind |-> "exit", call |-> n]>>
    ELSE <<>>

\* A decorated function is called and returns.
TracedCallReturns ==
    /\ tr_pc = "configured"
    /\ Len(tr_calls) < MaxTraced
    /\ tr_calls' = Append(tr_calls, "returned")
    /\ tr_log' = tr_log \o TraceRecords(Len(tr_calls) + 1)
    /\ UNCHANGED <<tr_pc, tr_trace, tr_log_level, tr_level>>
    /\ UNCHANGED nonTrVars

\* A decorated function is called and raises: the finally clause still logs.
TracedCallRaises ==
    /\ tr_pc = "configured"
    /\ Len(tr_calls) < MaxTraced
    /\ tr_calls' = Append(tr_calls, "raised")
    /\ tr_log' = tr_log \o TraceRecords(Len(tr_calls) + 1)
    /\ UNCHANGED <<tr_pc, tr_trace, tr_log_level, tr_level>>
    /\ UNCHANGED nonTrVars

(***************************************************************************)
(* clients/guardian_starter.py: GuardianClient.search_all                  *)
(***************************************************************************)
MaxTotal == 3         \* largest total_items passed to search_all
MaxPageLen == 2       \* most results on one page of a search

\* The "response" objects a search for page p is modelled to return.
SearchEnvelopes(p) ==
    {ResponseDict(cp, pages, results) :
        cp \in Optional(0..MaxReported), pages \in Optional(0..MaxReported),
        results \in Optional({PageResults(p, n) : n \in 0..MaxPageLen})}
\* The exceptions GuardianClient._request raises.
GuardianErrors ==
    {"GuardianError", "GuardianAuthError", "GuardianRateLimit", "GuardianServerError"}

\* Lines 186, 194, 195.
SearchResults(resp) == Get(resp, "results", <<>>)
CurrentPage(resp, page) == Get(resp, "currentPage", page)
Pages(resp, page) == Get(resp, "pages", CurrentPage(resp, page))

\* IsFinalPage holding for no page.
IsFinalPage_Never(resp, page) == FALSE

\* Line 196.
IsFinalPage(resp, page) == CurrentPage(resp, page) >= Pages(resp, page)

InitSearchWith(totals) ==
    /\ sa_pc = "start"
    /\ sa_total \in totals
    /\ sa_fetched = 0
    /\ sa_page = 1
    /\ sa_resp = EmptyDict
    /\ sa_pos = 0
    /\ sa_requests = <<>>
    /\ sa_out = <<>>

\* The generator is resumed by next(): `fetched` after line 191.
Resumed == sa_pc \in {"start", "yielded"}
FetchedNow == IF sa_pc = "yielded" THEN sa_fetched + 1 ELSE sa_fetched
\* The for loop has another item and the total is not reached (lines 189-193).
ContinuesInPage ==
    /\ sa_pc = "yielded"
    /\ FetchedNow < sa_total
    /\ sa_pos < Len(SearchResults(sa_resp))
\* The while loop comes round to another search (lines 173-174, 194-198).
NeedsRequest ==
    /\ Resumed
    /\ ~ContinuesInPage
    /\ FetchedNow < sa_total
    /\ sa_pc = "yielded" => ~IsFinalPage(sa_resp, sa_page)
NextPageNumber ==
    IF sa_pc = "yielded" THEN CurrentPage(sa_resp, sa_page) + 1 ELSE sa_page

\* next(): the next item of the current page is yielded.
SearchYieldsFromPage ==
    /\ ContinuesInPage
    /\ sa_fetched' = FetchedNow
    /\ sa_pos' = sa_pos + 1
    /\ sa_out' = Append(sa_out, SearchResults(sa_resp)[sa_pos + 1])
    /\ UNCHANGED <<sa_pc, sa_total, sa_page, sa_resp, sa_requests>>
    /\ UNCHANGED nonSaVars

\* next(): another page is searched; its first item is yielded, or it has no
\* results and the generator ends.
SearchRequestsPage ==
    /\ NeedsRequest
    /\ \E resp \in SearchEnvelopes(NextPageNumber) :
         /\ sa_resp' = resp
         /\ IF SearchResults(resp) = <<>>
            THEN /\ sa_pc' = "ended"
                 /\ sa_pos' = 0
                 /\ UNCHANGED sa_out
            ELSE /\ sa_pc' = "yielded"
                 /\ sa_pos' = 1
                 /\ sa_out' = Append(sa_out, SearchResults(resp)[1])
    /\ sa_page' = NextPageNumber
    /\ sa_requests' = Append(sa_requests, NextPageNumber)
    /\ sa_fetched' = FetchedNow
    /\ UNCHANGED sa_total
    /\ UNCHANGED nonSaVars

\* next(): another page is searched and _request raises.
SearchRequestRaises ==
    /\ NeedsRequest
    /\ \E kind \in GuardianErrors : sa_pc' = "raised"
    /\ sa_page' = NextPageNumber
    /\ sa_requests' = Append(sa_requests, NextPageNumber)
    /\ sa_fetched' = FetchedNow
    /\ UNCHANGED <<sa_total, sa_resp, sa_pos, sa_out>>
    /\ UNCHANGED nonSaVars

\* next(): the generator ends without another search.
SearchStops ==
    /\ Resumed
    /\ ~ContinuesInPage
    /\ ~NeedsRequest
    /\ sa_pc' = "ended"
    /\ sa_fetched' = FetchedNow
    /\ UNCHANGED <<sa_total, sa_page, sa_resp, sa_pos, sa_requests, sa_out>>
    /\ UNCHANGED nonSaVars

(***************************************************************************)
(* api_client/errors.py and main() of api_client/base_client.py            *)
(***************************************************************************)
\* The class each exception class is derived from.
ErrorBase ==
    [APIBaseError |-> "Exception", APIClientError |-> "Exception",
     APIServerError |-> "Exception", APITimeoutError |-> "Exception",
     APIAuthError |-> "Exception", APIConnectionError |-> "Exception",
     ValueError |-> "Exception", AttributeError |-> "Exception",
     JSONDecodeError |-> "ValueError", Exception |-> "BaseException"]

\* isinstance(e, cls) for an exception e of class kind
RECURSIVE IsInstance(_, _)
IsInstance(kind, cls) ==
    \/ kind = cls
    \/ kind \in DOMAIN ErrorBase /\ IsInstance(ErrorBase[kind], cls)

\* The except clauses of main, in order (lines 203-212).
MainHandlers ==
    <<[cls |-> "APITimeoutError", label |-> "Timeout error"],
      [cls |-> "APIAuthError", label |-> "Auth error"],
      [cls |-> "APIClientError", label |-> "Client error"],
      [cls |-> "APIServerError", label |-> "Server error"],
      [cls |-> "APIBaseError", label |-> "Unexpected error"]>>

\* The clauses that match an exception of class kind.
Matching(kind) == {i \in 1..Len(MainHandlers) : IsInstance(kind, MainHandlers[i].cls)}
FirstMatching(kind) == CHOOSE i \in Matching(kind) : \A k \in Matching(kind) : i <= k

\* The params main passes to get_all_articles (lines 191-199).
MainParams == SetKey(BaseParams, "page", 1)

\* main has called client.get_all_articles (line 202).
InitMain ==
    /\ mn_pc = "start"
    /\ mn_printed = "None"
    /\ mn_error = "None"

\* get_all_articles returns: main ends without printing.
MainReturns ==
    /\ mn_pc = "start"
    /\ pg_pc = "returned"
    /\ mn_pc' = "returned"
    /\ UNCHANGED <<mn_printed, mn_error>>
    /\ UNCHANGED nonMnVars

\* get_all_articles raises and an except clause matches: its message is
\* printed and main ends.
MainReports ==
    /\ mn_pc = "start"
    /\ pg_pc = "raised"
    /\ Matching(pg_error) # {}
    /\ mn_pc' = "returned"
    /\ mn_printed' = MainHandlers[FirstMatching(pg_error)].label
    /\ UNCHANGED mn_error
    /\ UNCHANGED nonMnVars

\* get_all_articles raises and no except clause matches: the exception
\* leaves main.
MainEscapes ==
    /\ mn_pc = "start"
    /\ pg_pc = "raised"
    /\ Matching(pg_error) = {}
    /\ mn_pc' = "raised"
    /\ mn_error' = pg_error
    /\ UNCHANGED mn_printed
    /\ UNCHANGED nonMnVars

(***************************************************************************)
(* Specifications                                                          *)
(***************************************************************************)
\* What a specification about one component fixes for the others.
InitOthersIdle(o) ==
    /\ IF o = "orch" THEN TRUE
       ELSE InitOrchWith({[guardian |-> TRUE, gemini |-> TRUE]}, {NoFile})
    /\ IF o = "pages" THEN TRUE
       ELSE InitPagesWith({SetKey(BaseParams, "page", 1)})
    /\ IF o = "log" THEN TRUE ELSE InitLogWith({FALSE})
    /\ IF o = "parse" THEN TRUE
       ELSE InitParseWith({Payload(None, None, None, None, None)})
    /\ IF o = "normalize" THEN TRUE
       ELSE InitNormalizeWith({[id |-> "a1"]})
    /\ IF o = "trace" THEN TRUE ELSE InitTrace
    /\ IF o = "search" THEN TRUE ELSE InitSearchWith({0})
    /\ InitMain

Init == InitRequest /\ InitOrch /\ InitOthersIdle("orch")

\* The orchestrator: analyze_articles called directly, or through
\* run_pipeline_for_date.
Next ==
    \/ CallRunPipeline
    \/ FetchRaises
    \/ FetchReturns
    \/ CallAnalyzeArticles
    \/ AnalyzeEnter
    \/ AnalyzeNoAttempt
    \/ AnalyzeSuccess
    \/ AnalyzeFailure
    \/ AnalyzeReturn
    \/ SaveAnalysis

Spec == Init /\ [][Next]_vars

\* One call of BaseClient._request.
InitReq ==
    /\ InitRequest
    /\ InitOthersIdle("request")

NextRequest ==
    \/ RequestCall
    \/ ReqTimeout
    \/ ReqNetworkError
    \/ ReqOk
    \/ ReqAuthStatus
    \/ ReqClientStatus
    \/ ReqRetryableStatus
    \/ ReqOtherStatus

SpecRequest == InitReq /\ [][NextRequest]_vars

\* One call of BaseClient.get_all_articles.
InitPages ==
    /\ InitRequest
    /\ InitPagesWith(CallerParams)
    /\ InitOthersIdle("pages")

NextPages ==
    \/ GetAllArticlesCall
    \/ PageRequestRaises
    \/ PageBodyUnusable
    \/ PageReturns

SpecPages == InitPages /\ [][NextPages]_vars

\* One run of main() of api_client/base_client.py.
InitRunMain ==
    /\ InitRequest
    /\ InitPagesWith({MainParams})
    /\ InitOthersIdle("pages")

NextMain ==
    \/ NextPages
    \/ MainReturns
    \/ MainReports
    \/ MainEscapes

SpecMain == InitRunMain /\ [][NextMain]_vars

\* Calls of BaseClient._request, as far as their debug record.
InitLog ==
    /\ InitRequest
    /\ InitLogWith(BOOLEAN)
    /\ InitOthersIdle("log")

NextLog == DebugRequest

SpecLog == InitLog /\ [][NextLog]_vars

\* One call of _parse_response.
InitParse ==
    /\ InitRequest
    /\ InitParseWith(Payloads)
    /\ InitOthersIdle("parse")

NextParse ==
    \/ ParseReturns
    \/ ParseRaises

SpecParse == InitParse /\ [][NextParse]_vars

\* One call of article_from_guardian.
InitNormalize ==
    /\ InitRequest
    /\ InitNormalizeWith(RawRecords)
    /\ InitOthersIdle("normalize")

NextNormalize ==
    \/ NormalizeReturns
    \/ NormalizeRaises

SpecNormalize == InitNormalize /\ [][NextNormalize]_vars

\* One run of the CLI, as far as its logging goes.
InitCli ==
    /\ InitRequest
    /\ InitTrace
    /\ InitOthersIdle("trace")

NextCli ==
    \/ CliSetupLogging
    \/ TracedCallReturns
    \/ TracedCallRaises

SpecCli == InitCli /\ [][NextCli]_vars

\* One generator made by GuardianClient.search_all and consumed by next().
InitSearch ==
    /\ InitRequest
    /\ InitSearchWith(0..MaxTotal)
    /\ InitOthersIdle("search")

NextSearch ==
    \/ SearchYieldsFromPage
    \/ SearchRequestsPage
    \/ SearchRequestRaises
    \/ SearchStops

SpecSearch == InitSearch /\ [][NextSearch]_vars

(***************************************************************************)
(* Properties of analyze_articles and run_pipeline_for_date                *)
(***************************************************************************)
\* analyze_articles has returned to its caller.
AnalyzeReturned == pc \in {"returned", "save", "done"}

\* The analyze_article calls made for article number i, in call order.
CallsOf(i) == SelectSeq(calls, LAMBDA c : c.article = i)
AllRaised(cs) == \A j \in 1..Len(cs) : ~cs[j].ok
SuccessesOf(id) == {s \in 1..Len(successes) : successes[s].article_id = id}
FailuresOf(id) == {f \in 1..Len(failures) : failures[f].article_id = id}

\* C1: when analyze_articles returns, every input article id is in exactly
\* one of successes and failures, and the two lengths add up to the number of
\* input articles, for every retry budget max_retries.
C1_ExactlyOneOutcome ==
    AnalyzeReturned =>
        /\ Len(successes) + Len(failures) = Len(articles)
        /\ \A i \in 1..Len(articles) :
             Cardinality(SuccessesOf(articles[i].id))
               + Cardinality(FailuresOf(articles[i].id)) = 1

\* C2: each article is analysed at most max_retries times, its attempts are
\* numbered 1, 2, ... by a counter of its own, no attempt follows its first
\* success, and an article has a failure record exactly when max_retries
\* attempts were made and all raised: then it has exactly one, whose attempts
\* field is max_retries (>= 1) and whose error is the repr of the exception of
\* the last attempt.
C2_PerArticleRetryBudget ==
    /\ \A i \in 1..Len(articles) :
         LET cs == CallsOf(i)
             exhausted == Len(cs) >= 1 /\ Len(cs) = max_retries /\ AllRaised(cs)
             recs == FailuresOf(articles[i].id)
         IN  /\ Len(cs) <= max_retries
             /\ \A j \in 1..Len(cs) : cs[j].attempt = j
             /\ \A j \in 1..(Len(cs) - 1) : ~cs[j].ok
             /\ Cardinality(recs) = IF exhausted THEN 1 ELSE 0
             /\ \A f \in recs :
                  /\ failures[f].attempts = max_retries
                  /\ failures[f].attempts >= 1
    /\ (last_call.exc # "None" /\ last_call.attempt = max_retries) =>
         /\ failures # <<>>
         /\ failures[Len(failures)].article_id = articles[last_call.article].id
         /\ failures[Len(failures)].error = Repr(last_call.exc)

\* Article 1 succeeds at its second attempt, article 2 fails three times out
\* of three and has its record.
C2_Witness ==
    /\ pc = "returned"
    /\ max_retries = 3
    /\ Len(articles) >= 2
    /\ Len(CallsOf(1)) = 2
    /\ successes # <<>> /\ successes[1].article_id = articles[1].id
    /\ Len(CallsOf(2)) = 3
    /\ failures # <<>> /\ failures[1].article_id = articles[2].id
    /\ failures[1].error = Repr("QuotaError")

\* C3: an exception raised by analyze_article never leaves analyze_articles:
\* once a call has raised, the entry point has not raised, the loop can
\* always go on, and at the return every article after the failing one has
\* been attempted.
C3_FailureDoesNotAbort ==
    /\ (\E c \in 1..Len(calls) : ~calls[c].ok) =>
         /\ pc # "raised"
         /\ orch_error = "None"
    /\ pc = "loop" => ENABLED Next
    /\ AnalyzeReturned =>
         \A c \in 1..Len(calls) :
           ~calls[c].ok =>
             \A j \in (calls[c].article + 1)..Len(articles) : CallsOf(j) # <<>>

\* Article 1 raised at every attempt, and articles 2 and 3 were analysed
\* after it before analyze_articles returned.
C3_Witness ==
    /\ pc = "returned"
    /\ Len(articles) = 3
    /\ max_retries >= 2
    /\ Len(CallsOf(1)) = max_retries /\ AllRaised(CallsOf(1))
    /\ CallsOf(2) # <<>> /\ CallsOf(3) # <<>>
    /\ Len(successes) + Len(failures) = 3

AlwaysFailing == {i \in 1..Len(articles) : CallsOf(i) # <<>> /\ AllRaised(CallsOf(i))}
Succeeding == {i \in 1..Len(articles) : \E j \in 1..Len(CallsOf(i)) : CallsOf(i)[j].ok}

\* C5: in a run in which some articles fail on every attempt and every other
\* article succeeds, successes holds exactly the other articles, failures
\* holds exactly one record per always-failing article, with attempts =
\* max_retries, and save_analysis writes the success file and the failures
\* file.
C5_PartialFailureRun ==
    (AnalyzeReturned /\ AlwaysFailing # {}
       /\ AlwaysFailing \cup Succeeding = 1..Len(articles)) =>
        /\ {successes[s].article_id : s \in 1..Len(successes)}
             = {articles[i].id : i \in Succeeding}
        /\ Len(successes) = Cardinality(Succeeding)
        /\ {failures[f].article_id : f \in 1..Len(failures)}
             = {articles[i].id : i \in AlwaysFailing}
        /\ Len(failures) = Cardinality(AlwaysFailing)
        /\ \A f \in 1..Len(failures) : failures[f].attempts = max_retries
        /\ pc = "done" =>
             /\ mainFile.exists
             /\ Len(mainFile.lines) = Len(successes)
             /\ \A s \in 1..Len(successes) : mainFile.lines[s].json = successes[s]
             /\ failFile.exists
             /\ Len(failFile.lines) = Len(failures)
             /\ \A f \in 1..Len(failures) : failFile.lines[f].json = failures[f]

\* The scenario of the spec: 3 articles, the 2nd fails at each of its 3
\* attempts, the others succeed, and the run has been saved.
C5_Witness ==
    /\ mode = "pipeline"
    /\ pc = "done"
    /\ Len(articles) = 3
    /\ max_retries = 3
    /\ AlwaysFailing = {2}
    /\ Len(successes) = 2
    /\ Len(failures) = 1 /\ failures[1].attempts = 3
    /\ mainFile.exists /\ failFile.exists

(***************************************************************************)
(* Properties of BaseClient._request                                       *)
(***************************************************************************)
\* The most recent attempt ended in a cause the client retries.
LastRetryable ==
    \/ rq_last.kind \in {"timeout", "network"}
    \/ rq_last.kind = "status"
         /\ (rq_last.status = 429 \/ (500 <= rq_last.status /\ rq_last.status < 600))
TotalSlept == rq_pause.helper + rq_pause.extra
ApiErrors ==
    {"APITimeoutError", "APIConnectionError", "APIAuthError", "APIClientError",
     "APIServerError"}

\* C6: a 401 or 403 response raises APIAuthError and any other 4xx response
\* except 429 raises APIClientError, at whichever attempt, at once: no sleep
\* follows the response and no further request is sent.
C6_NonRetryableFailsAtOnce ==
    LET st == rq_last.status
        failsWith(kind) ==
            /\ rq_pc = "raised"
            /\ rq_error = kind
            /\ rq_sent = rq_last.attempt
            /\ rq_pause.calls = 0 /\ TotalSlept = 0
            /\ ~ENABLED NextRequest
    IN  rq_last.kind = "status" =>
          /\ st \in {401, 403} => failsWith("APIAuthError")
          /\ (400 <= st /\ st < 500 /\ st \notin {401, 403, 429}) =>
               failsWith("APIClientError")

\* A 403 answered to the third attempt.
C6_Witness ==
    /\ rq_last.kind = "status"
    /\ rq_last.status = 403
    /\ rq_last.attempt = 3
    /\ rq_sent = 3
    /\ rq_error = "APIAuthError"

\* C7: one call sends at most 4 requests; every attempt, whatever its outcome,
\* advances the one attempt counter; a 200 is returned at once; and a timeout,
\* a network failure, a 429 or a 5xx ends the call with an API error only at
\* the 4th attempt.
C7_BoundedSharedAttempts ==
    /\ rq_sent <= 4
    /\ rq_sent > 0 => rq_last.attempt = rq_sent
    /\ rq_pc = "loop" => rq_attempt = rq_sent + 1
    /\ (rq_last.kind = "status" /\ rq_last.status = 200) =>
         /\ rq_pc = "returned"
         /\ rq_resp.status = 200
    /\ (LastRetryable /\ rq_last.attempt < 4) =>
         /\ rq_pc # "returned"
         /\ rq_error \notin ApiErrors

\* A 200 answered to the 4th attempt, after three retried failures.
C7_Witness ==
    /\ rq_sent = 4
    /\ rq_last.kind = "status" /\ rq_last.status = 200
    /\ rq_pc = "returned"

\* C8: when the attempts are exhausted the error raised tells the cause of
\* the last attempt, one kind per cause (timeout, connection, rate limit,
\* server), none of them a kind the non-retryable failures raise.
C8_ExhaustedErrorPerCause ==
    (rq_pc = "raised" /\ rq_sent = 4 /\ LastRetryable) =>
        /\ rq_last.kind = "timeout" => rq_error = "APITimeoutError"
        /\ rq_last.kind = "network" => rq_error = "APIConnectionError"
        /\ (rq_last.kind = "status" /\ rq_last.status >= 500) =>
             rq_error = "APIServerError"
        /\ (rq_last.kind = "status" /\ rq_last.status = 429) =>
             rq_error \notin {"APITimeoutError", "APIConnectionError",
                              "APIServerError", "APIAuthError", "APIClientError",
                              "APIBaseError", "Exception"}

\* C9: with no Retry-After header, the time slept between attempt k and
\* attempt k+1 is in [b, 1.5 b], b = min(30 s, 1 s * 2^(k-1)), for every
\* retried cause.
C9_BackoffSleepBounds ==
    (rq_pc = "loop" /\ rq_last.attempt >= 1 /\ LastRetryable
       /\ ~rq_last.header.present) =>
        LET b == Min(3000, 100 * 2^(rq_last.attempt - 1))
        IN  b <= TotalSlept /\ 2 * TotalSlept <= 3 * b

\* C10: after a 429 that is retried, the time slept is in [c, 1.5 c] with
\* c = min(30 s, v) when Retry-After parses as the integer v, whatever the
\* attempt, and in [b, 1.5 b] for the exponential b otherwise.
C10_RetryAfterSleepBounds ==
    (rq_pc = "loop" /\ rq_last.kind = "status" /\ rq_last.status = 429) =>
        LET h == rq_last.header
            b == Min(3000, 100 * 2^(rq_last.attempt - 1))
            c == IF h.present /\ IntParses(h.text)
                 THEN Min(3000, 100 * IntOf(h.text))
                 ELSE b
        IN  c <= TotalSlept /\ 2 * TotalSlept <= 3 * c

(***************************************************************************)
(* Properties of BaseClient.get_all_articles                               *)
(***************************************************************************)
GetAllArticlesEnded == pg_pc \in {"returned", "raised"}

\* C11: after get_all_articles, whether it returned or raised, the caller's
\* params mapping has the keys and values it had before the call.
C11_CallerParamsUnchanged ==
    GetAllArticlesEnded => pg_params = pg_params0

\* C12: no page is requested after a page whose envelope reports
\* currentPage >= pages or whose results list is empty.
C12_StopsAtEmptyOrLastPage ==
    (pg_pc = "loop" /\ pg_last.kind = "body") =>
        LET r == Get(pg_last.data, "response", EmptyDict)
        IN  /\ Get(r, "results", <<>>) # <<>>
            /\ Get(r, "currentPage", 0) < Get(r, "pages", 0)

\* The results of pages 1..k, in page order.
RECURSIVE PagesConcat(_)
PagesConcat(k) ==
    IF k = 0 THEN <<>>
    ELSE PagesConcat(k - 1) \o [i \in 1..pg_sizes[k] |-> <<k, i>>]

\* C13: the pages are requested as 1, 2, 3, ..., one _request call each, and
\* the list returned is the concatenation of the fetched pages' results in
\* page order (20 results after 2 calls for two pages of 10).
C13_PagesInOrderConcatenated ==
    /\ pg_requests = [i \in 1..Len(pg_requests) |-> i]
    /\ Len(pg_sizes) <= Len(pg_requests)
    /\ pg_pc = "returned" =>
         /\ Len(pg_requests) = Len(pg_sizes)
         /\ pg_returned = Some(PagesConcat(Len(pg_sizes)))
         /\ pg_sizes = <<10, 10>> => Len(pg_returned[1]) = 20 /\ Len(pg_requests) = 2

\* Page 1 holds 10 results and reports pages = 2, page 2 holds 10 results and
\* reports currentPage = 2 of 2: 20 results are returned after 2 calls.
C13_Witness ==
    /\ pg_pc = "returned"
    /\ pg_sizes = <<10, 10>>
    /\ pg_requests = <<1, 2>>
    /\ ResponseGet(pg_last.data, "currentPage", 0) = 2
    /\ ResponseGet(pg_last.data, "pages", 0) = 2
    /\ Len(pg_returned[1]) = 20

\* C14: when _request raises for page p, get_all_articles raises the same
\* error: page p was requested once, nothing more is requested, and no list
\* is returned.
C14_RequestErrorPropagates ==
    pg_last.kind = "raised" =>
        /\ pg_pc = "raised"
        /\ pg_error = pg_last.error
        /\ pg_returned = None
        /\ Len(pg_requests) = pg_page
        /\ Cardinality({i \in 1..Len(pg_requests) : pg_requests[i] = pg_page}) = 1
        /\ ~ENABLED NextPages

\* _request raises APIServerError for page 2, after page 1 was accumulated.
C14_Witness ==
    /\ pg_last.kind = "raised"
    /\ pg_page = 2
    /\ pg_results # None /\ Len(pg_results[1]) = 10
    /\ pg_error = "APIServerError"

(***************************************************************************)
(* Properties of the debug record of BaseClient._request                   *)
(***************************************************************************)
\* The parameters request number i sends.
SentParams(i) == RequestParams(lg_requests[i].params, lg_requests[i].api_key)
Logged(i) == i \in 1..Len(lg_log) /\ lg_log[i] # None
\* Two parameter sets that differ at most in the values of secret names.
SameButSecrets(a, b) ==
    /\ DOMAIN a = DOMAIN b
    /\ \A k \in DOMAIN a : ~_should_redact(k) => a[k] = b[k]

\* C15: the debug record of a request shows the redaction marker in place of
\* the value of every parameter whose name matches key, token, secret,
\* password or api (api-key, token and password among them), so two requests
\* that differ only in those values have identical records.
C15_SecretsRedactedInLog ==
    /\ \A i \in 1..Len(lg_log) :
         Logged(i) =>
            \A k \in DOMAIN SentParams(i) :
                _should_redact(k) => lg_log[i][1][k] = REDACTED
    /\ \A i, j \in 1..Len(lg_log) :
         (Logged(i) /\ Logged(j) /\ SameButSecrets(SentParams(i), SentParams(j)))
            => lg_log[i] = lg_log[j]

(***************************************************************************)
(* Properties of _parse_response                                           *)
(***************************************************************************)
ParseEnded == pr_pc \in {"returned", "raised"}
WellFormedEntity(e) ==
    /\ e.t = "obj"
    /\ Has(e.v, "text") /\ e.v["text"].t = "str"
    /\ Has(e.v, "type") /\ e.v["type"].t = "str"
    /\ Has(e.v, "salience") /\ e.v["salience"].t = "num"
\* The entities expected of a key_entities list: its well-formed items, in
\* their order.
WellFormedEntities(l) ==
    LET good == SelectSeq(l, WellFormedEntity)
    IN  [i \in 1..Len(good) |->
            [text |-> good[i].v["text"].v, type |-> good[i].v["type"].v,
             salience |-> good[i].v["salience"].v]]
FieldIs(data, k, t) == Has(data, k) /\ data[k].t = t
\* A payload without confidence whose key_entities holds one entity without
\* text among well-formed ones, its other fields being of the right type.
MissingTextCase(data) ==
    /\ ~Has(data, "confidence")
    /\ FieldIs(data, "key_entities", "list")
    /\ LET l == data["key_entities"].v
       IN  /\ Cardinality({i \in 1..Len(l) : l[i] = NoTextEntity}) = 1
           /\ \A i \in 1..Len(l) : l[i] = NoTextEntity \/ WellFormedEntity(l[i])
    /\ ~Has(data, "sentiment") \/ FieldIs(data, "sentiment", "num")
    /\ ~Has(data, "summary") \/ FieldIs(data, "summary", "str")
    /\ ~Has(data, "topics") \/ FieldIs(data, "topics", "list")

\* C16: for a payload without confidence whose key_entities holds one entity
\* without a text field, _parse_response returns (it does not raise) an
\* ArticleAnalysis with confidence 0.0 whose key_entities are exactly the
\* well-formed entities in their original order.
C16_MissingTextEntityOmitted ==
    (ParseEnded /\ MissingTextCase(pr_data)) =>
        /\ pr_pc = "returned"
        /\ pr_out[1].confidence = 0
        /\ pr_out[1].key_entities = WellFormedEntities(pr_data["key_entities"].v)

\* C17: for every payload that is a JSON object _parse_response returns
\* without raising; a missing, null or wrongly-typed sentiment, summary,
\* topics or confidence yields the default (0.0, "", empty sequence, 0.0),
\* and a malformed key_entities entry is skipped, the others being kept.
C17_ParseNeverRaises ==
    ParseEnded =>
        /\ pr_pc = "returned"
        /\ ~FieldIs(pr_data, "sentiment", "num") => pr_out[1].sentiment = 0
        /\ ~FieldIs(pr_data, "summary", "str") => pr_out[1].summary = <<>>
        /\ ~FieldIs(pr_data, "topics", "list") => pr_out[1].topics = <<>>
        /\ ~FieldIs(pr_data, "confidence", "num") => pr_out[1].confidence = 0
        /\ FieldIs(pr_data, "key_entities", "list") =>
              pr_out[1].key_entities = WellFormedEntities(pr_data["key_entities"].v)

(***************************************************************************)
(* More properties of analyze_articles and save_analysis                   *)
(***************************************************************************)
\* C18: after analyze_article raises an authentication error for an article,
\* no further analyze_article call is made for that article (a transient
\* failure is retried by the caller).
C18_AuthErrorNotRetried ==
    [][(last_call.exc = "AuthError" /\ calls' # calls)
          => last_call'.article # last_call.article]_vars

\* C19: after save_analysis the failures file exists if and only if this run
\* recorded a failure, also when an earlier run left one for the same date,
\* and the success file holds one line per successful analysis of this run.
C19_FailuresFileIffFailures ==
    pc = "done" =>
        /\ failFile.exists <=> failures # <<>>
        /\ mainFile.exists
        /\ mainFile.lines = [i \in 1..Len(successes) |-> JsonLine(successes[i])]

\* The positions of the input articles, in input order, for which some call
\* satisfies P.
ArticlesWhere(P(_)) ==
    SelectSeq([i \in 1..Len(articles) |-> i],
              LAMBDA i : \E j \in 1..Len(calls) : calls[j].article = i /\ P(calls[j]))
CallSucceeded(c) == c.ok
CallExhausted(c) == ~c.ok /\ c.attempt = max_retries

\* C20: the calls of analyze_article go through the articles in input order,
\* all attempts for one article before any for the next; no call follows an
\* article's terminal outcome (a success, or a failure at the last attempt);
\* successes and failures list their articles in input order.
C20_SequentialInInputOrder ==
    /\ \A j \in 1..Len(calls), k \in 1..Len(calls) :
         j < k => calls[j].article <= calls[k].article
    /\ \A j \in 1..(Len(calls) - 1) :
         /\ (CallSucceeded(calls[j]) \/ CallExhausted(calls[j]))
               => calls[j + 1].article > calls[j].article
         /\ calls[j + 1].article = calls[j].article
               => calls[j + 1].attempt = calls[j].attempt + 1
    /\ LET ok == ArticlesWhere(CallSucceeded)
           ko == ArticlesWhere(CallExhausted)
       IN  /\ Len(successes) = Len(ok)
           /\ \A k \in 1..Len(ok) : successes[k].article_id = articles[ok[k]].id
           /\ Len(failures) = Len(ko)
           /\ \A k \in 1..Len(ko) : failures[k].article_id = articles[ko[k]].id

\* Three articles: the first fails at every attempt, the second succeeds
\* after a retry, the third succeeds.
C20_Witness ==
    /\ AnalyzeReturned
    /\ Len(articles) = 3
    /\ max_retries = 2
    /\ Len(calls) = 5
    /\ Len(failures) = 1 /\ failures[1].article_id = articles[1].id
    /\ Len(successes) = 2
    /\ successes[1].article_id = articles[2].id
    /\ successes[2].article_id = articles[3].id

\* C21: after the k-th failed attempt for an article with k < max_retries
\* exactly one sleep is made before attempt k+1, of a duration in [b, 1.5*b]
\* with b = min(max_backoff, base_backoff * 2^(k-1)); no sleep follows a
\* successful attempt or the final failed attempt.
C21_OneBackoffSleepPerRetry ==
    LET k == last_call.attempt
        b == Min(max_backoff, base_backoff * Pow2(k - 1))
    IN  IF last_call.exc # "None" /\ k < max_retries
        THEN /\ Len(last_call.slept) = 1
             /\ b <= last_call.slept[1]
             /\ 2 * last_call.slept[1] <= 3 * b
             /\ pc = "loop" /\ attempt = k + 1 /\ idx = last_call.article
        ELSE last_call.slept = <<>>

\* With base_backoff 20 s and max_backoff 30 s the second failed attempt of
\* three is followed by one sleep of 45 s: the cap plus the largest jitter.
C21_Witness ==
    /\ last_call.exc # "None"
    /\ last_call.attempt = 2
    /\ max_retries = 3
    /\ base_backoff = Seconds(20)
    /\ last_call.slept = <<Seconds(45)>>

\* C22: run_pipeline_for_date analyses exactly the first min(n, limit) of the
\* n fetched articles, in fetch order, for every n >= 0 and every limit >= 0
\* (DEFAULT_ANALYZE_LIMIT when omitted), and writes outcomes for exactly
\* those articles.
C22_AnalysesFirstMinNLimit ==
    (mode = "pipeline" /\ pc \in {"enter", "loop", "save", "done"}) =>
        LET limit == IF analyze_limit = None THEN DEFAULT_ANALYZE_LIMIT
                     ELSE analyze_limit[1]
        IN  /\ articles = SubSeq(fetched, 1, Min(Len(fetched), limit))
            /\ pc = "done" =>
                 {mainFile.lines[i].json.article_id : i \in 1..Len(mainFile.lines)}
                    \cup {failures[i].article_id : i \in 1..Len(failures)}
                 = {articles[i].id : i \in 1..Len(articles)}

(***************************************************************************)
(* Properties of article_from_guardian                                     *)
(***************************************************************************)
NormalizeEnded == nm_pc \in {"returned", "raised"}
HasField(item, k) == Has(item, "fields") /\ Has(item["fields"], k)

\* C23: article_from_guardian raises if and only if the record has no id;
\* for a record with an id, whichever optional fields are missing, it returns
\* an Article with the empty string or None in their place.
C23_RaisesIffNoId ==
    NormalizeEnded =>
        /\ nm_pc = "raised" <=> ~Has(nm_item, "id")
        /\ nm_pc = "returned" =>
             LET a == nm_out[1]
             IN  /\ a.id = nm_item["id"]
                 /\ ~HasField(nm_item, "bodyText") => a.body = ""
                 /\ ~Has(nm_item, "sectionName") => a.section = None
                 /\ ~HasField(nm_item, "publication") => a.publication = None
                 /\ ~Has(nm_item, "webUrl") => a.url = ""
                 /\ (~HasField(nm_item, "headline") /\ ~Has(nm_item, "webTitle"))
                       => a.title = ""

\* A record that holds nothing but its id is normalised.
C23_Witness ==
    /\ nm_pc = "returned"
    /\ DOMAIN nm_item = {"id"}
    /\ nm_out[1].title = "" /\ nm_out[1].section = None

\* C24: the title is fields.headline when present, otherwise webTitle when
\* present, otherwise the empty string, and Article.raw is the raw record
\* unchanged.
C24_TitleFallbackAndRawKept ==
    nm_pc = "returned" =>
        /\ nm_out[1].title =
              IF HasField(nm_item, "headline") THEN nm_item["fields"]["headline"]
              ELSE IF Has(nm_item, "webTitle") THEN nm_item["webTitle"]
              ELSE ""
        /\ nm_out[1].raw = nm_item

\* Both headline and webTitle are present: the headline is the title.
C24_Witness ==
    /\ nm_pc = "returned"
    /\ HasField(nm_item, "headline") /\ Has(nm_item, "webTitle")
    /\ nm_out[1].title = "H"
    /\ nm_out[1].raw = nm_item

\* C25: every ArticleAnalysis _parse_response returns has its sentiment in
\* [-1, 1], its confidence in [0, 1] and the salience of each of its entities
\* in [0, 1], whatever numbers the payload holds.
C25_ParsedValuesInRange ==
    pr_pc = "returned" =>
        /\ pr_out[1].sentiment \in -1..1
        /\ pr_out[1].confidence \in 0..1
        /\ \A i \in 1..Len(pr_out[1].key_entities) :
             pr_out[1].key_entities[i].salience \in 0..1

\* C26: _request emits exactly one diagnostic record per HTTP attempt, the
\* successful and the final failing attempt included: when a call ends, the
\* number of its records equals the number of requests it sent.
C26_OneRecordPerAttempt ==
    rq_pc \in {"returned", "raised"} => rq_records = rq_sent

(***************************************************************************)
(* Properties of the trace decorator                                       *)
(***************************************************************************)
\* C27: with --trace every call of a decorated function emits one entry
\* record and one exit record, also when it raises; without --trace and at
\* the default log level the decorator emits nothing.
C27_TraceFlagEnablesTracing ==
    tr_pc = "configured" =>
        /\ tr_trace =>
             /\ tr_level <= LoggingLevel.INFO
             /\ Len(tr_log) = 2 * Len(tr_calls)
             /\ \A n \in 1..Len(tr_calls) :
                  /\ tr_log[2 * n - 1] = [kind |-> "enter", call |-> n]
                  /\ tr_log[2 * n] = [kind |-> "exit", call |-> n]
        /\ (~tr_trace /\ tr_log_level = DefaultLogLevel) => tr_log = <<>>

(***************************************************************************)
(* Properties of the stages of run_pipeline_for_date                       *)
(***************************************************************************)
\* Every article handed to analyze_articles has its success or its failure
\* record.
AllTerminal ==
    \A i \in 1..Len(articles) :
        Cardinality(SuccessesOf(articles[i].id)) + Cardinality(FailuresOf(articles[i].id)) = 1
FilesUntouched == mainFile' = mainFile /\ failFile' = failFile

\* C28: when the fetch stage of run_pipeline_for_date fails (GUARDIAN_API_KEY
\* missing, or get_all_articles raising), the error leaves the entry point,
\* no analyze_article call is made and no output file is created or modified.
C28_FetchFailureAborts ==
    /\ [][(mode' = "pipeline" /\ pc \in {"idle", "fetch"} /\ pc' = "raised") =>
            /\ orch_error' \in FetchErrors \cup {"RuntimeError", "KeyError"}
            /\ calls' = <<>>
            /\ FilesUntouched]_vars
    /\ [](pc = "raised" =>
            /\ ~ENABLED Next
            /\ mode = "pipeline" /\ calls = <<>> => mainFile = NoFile)

\* get_all_articles raised APIServerError: nothing was analysed, no success
\* file exists and the failures file of an earlier run is as it was.
C28_Witness ==
    /\ mode = "pipeline"
    /\ pc = "raised"
    /\ orch_error = "APIServerError"
    /\ calls = <<>>
    /\ mainFile = NoFile
    /\ failFile = StaleFailFile

\* C29: in run_pipeline_for_date no analyze_article call is made before the
\* fetch has completed, and no output file is written until every selected
\* article has its terminal outcome.
C29_StagesInOrder ==
    /\ []((mode = "pipeline" /\ pc \in {"idle", "fetch"}) => calls = <<>>)
    /\ [][(mode = "pipeline" /\ calls' # calls) =>
            /\ pc = "loop"
            /\ articles = SelectArticles(fetched, analyze_limit)
            /\ FilesUntouched]_vars
    /\ [][(mode = "pipeline" /\ ~FilesUntouched) =>
            /\ pc = "save"
            /\ AllTerminal
            /\ UNCHANGED calls]_vars

\* A run that fetched, analysed two articles with a retry, and saved.
C29_Witness ==
    /\ mode = "pipeline"
    /\ pc = "done"
    /\ Len(articles) = 2
    /\ Len(calls) = 3
    /\ Len(mainFile.lines) + Len(failures) = 2

(***************************************************************************)
(* Properties of GuardianClient.search_all                                 *)
(***************************************************************************)
SearchAsked == Len(sa_requests') > Len(sa_requests)

\* C30: search_all yields at most total_items records and ends after at most
\* total_items searches; it searches a further page only when the page before
\* had results and currentPage < pages and fewer than total_items records
\* were yielded, and nothing follows its end.
C30_SearchAllFiniteAndCapped ==
    /\ [](/\ Len(sa_out) <= sa_total
          /\ Len(sa_requests) <= sa_total
          /\ sa_pc \in {"ended", "raised"} =>
                ~(ENABLED (SearchYieldsFromPage \/ SearchRequestsPage
                             \/ SearchRequestRaises \/ SearchStops)))
    /\ [][SearchAsked =>
            /\ Len(sa_out) < sa_total
            /\ sa_requests # <<>> =>
                 /\ SearchResults(sa_resp) # <<>>
                 /\ CurrentPage(sa_resp, sa_page) < Pages(sa_resp, sa_page)]_vars

\* total_items = 3 with two results per page: the third record comes from
\* page 2, which reports more pages, and no third page is searched.
C30_Witness ==
    /\ sa_pc = "ended"
    /\ sa_total = 3
    /\ sa_requests = <<1, 2>>
    /\ Len(sa_out) = 3
    /\ Len(SearchResults(sa_resp)) = 2
    /\ ~IsFinalPage(sa_resp, sa_page)

(***************************************************************************)
(* Further properties of BaseClient._request                               *)
(***************************************************************************)
\* C31: whatever the outcome of each attempt, a call of _request ends either
\* by returning a response with status 200 or by raising one of the typed API
\* errors: it never returns without a response and lets no other exception
\* escape.
C31_ReturnsOkOrTypedError ==
    /\ rq_pc = "returned" => rq_resp.status = 200
    /\ rq_pc = "raised" => rq_error \in ApiErrors

\* The attempt last made was followed by a call of _backoff_sleep_jitter.
HelperCalled ==
    /\ rq_last.attempt \in 1..(req_max_retries - 1)
    /\ \/ rq_last.kind \in {"timeout", "network"}
       \/ rq_last.kind = "status" /\ IsRetryableStatus(rq_last.status)

\* C32: every duration _backoff_sleep_jitter computes, for whichever attempt
\* and whichever integer Retry-After value (zero and negative ones included)
\* and whichever jitter, lies between 0 and 1.5 * max_backoff.
C32_BackoffSleepWithinBounds ==
    HelperCalled =>
        \A j \in 0..JitterSteps :
            LET sleep_time ==
                  BackoffSleepJitter(rq_last.attempt, ParseRetryAfter(rq_last.header), j)
            IN  /\ 0 <= sleep_time
                /\ 2 * sleep_time <= 3 * req_max_backoff

(***************************************************************************)
(* Further properties of run_pipeline_for_date                             *)
(***************************************************************************)
\* C33: a run of run_pipeline_for_date that fails for a missing credential
\* (RuntimeError of get_env) fails at its start, before fetch_articles_for_date
\* is called and so before get_all_articles has sent any HTTP request.
C33_MissingKeyFailsBeforeAnyRequest ==
    [][(mode' = "pipeline" /\ pc # "raised" /\ pc' = "raised"
          /\ orch_error' = "RuntimeError")
         => pc = "idle"]_vars

(***************************************************************************)
(* Properties of main() of api_client/base_client.py                       *)
(***************************************************************************)
\* C34: whenever get_all_articles fails with one of the typed errors _request
\* raises (timeout, connection, auth, client, server), main catches it and
\* prints a report: the error does not escape.
C34_MainReportsEveryRequestError ==
    (mn_pc # "start" /\ pg_pc = "raised" /\ pg_error \in ApiErrors) =>
        /\ mn_pc = "returned"
        /\ mn_printed # "None"
        /\ mn_error = "None"

====
